---- MODULE Spec2Model ----
(***************************************************************************)
(* Model of the amazon-affiliate deal checkers:                            *)
(*   src/check-deal-amazon-api.mjs  (PA-API pipeline)                      *)
(*   src/check-deals-keepa.mjs      (Keepa pipeline)                       *)
(*   src/unnamed/part_000           (browser scraper, scrape-deals.mjs)    *)
(*                                                                         *)
(* Text is modelled as sequences of one-character strings, so that the     *)
(* regular expressions and toUpperCase act on characters.                  *)
(***************************************************************************)
EXTENDS Integers, Sequences, FiniteSets, TLC

(***************************************************************************)
(* Characters and strings                                                  *)
(***************************************************************************)
\* JavaScript null: a value that is no string of the model (characters are one letter long)
Null == <<"null">>

LowerChars == <<"a","b","c","d","e","f","g","h","i","j","k","l","m",
                "n","o","p","q","r","s","t","u","v","w","x","y","z">>
UpperChars == <<"A","B","C","D","E","F","G","H","I","J","K","L","M",
                "N","O","P","Q","R","S","T","U","V","W","X","Y","Z">>
DigitChars == <<"0","1","2","3","4","5","6","7","8","9">>

IsLower(c) == \E i \in 1..26 : LowerChars[i] = c
IsUpper(c) == \E i \in 1..26 : UpperChars[i] = c
IsDigit(c) == \E i \in 1..10 : DigitChars[i] = c

\* String.prototype.toUpperCase / toLowerCase on one character
UpperChar(c) == IF IsLower(c) THEN UpperChars[CHOOSE i \in 1..26 : LowerChars[i] = c] ELSE c
LowerChar(c) == IF IsUpper(c) THEN LowerChars[CHOOSE i \in 1..26 : UpperChars[i] = c] ELSE c

toUpperCase(s) == [i \in 1..Len(s) |-> UpperChar(s[i])]
toLowerCase(s) == [i \in 1..Len(s) |-> LowerChar(s[i])]

\* the character class [A-Z0-9] under the /i flag
IsAlnumI(c) == IsDigit(c) \/ IsUpper(c) \/ IsLower(c)

\* s has the literal lit at position p, compared case-insensitively (/i)
HasLitI(s, p, lit) ==
    /\ p >= 1
    /\ p + Len(lit) - 1 <= Len(s)
    /\ \A k \in 1..Len(lit) : UpperChar(s[p + k - 1]) = UpperChar(lit[k])

\* s has the literal lit at position p, compared exactly
HasLit(s, p, lit) ==
    /\ p >= 1
    /\ p + Len(lit) - 1 <= Len(s)
    /\ \A k \in 1..Len(lit) : s[p + k - 1] = lit[k]

\* ([A-Z0-9]{10}) at position p
HasAsinAt(s, p) ==
    /\ p >= 1
    /\ p + 9 <= Len(s)
    /\ \A k \in 0..9 : IsAlnumI(s[p + k])

Min(a, b) == IF a <= b THEN a ELSE b
Max(a, b) == IF a >= b THEN a ELSE b

\* smallest member of a non-empty set of integers
MinOf(S) == CHOOSE x \in S : \A y \in S : x <= y

\* first position >= 1 of a character of the set cs in s, or Len(s)+1
FirstOf(s, cs) ==
    LET P == {i \in 1..Len(s) : s[i] \in cs}
    IN  IF P = {} THEN Len(s) + 1 ELSE MinOf(P)

(***************************************************************************)
(* Identifier extraction                                                   *)
(***************************************************************************)
SchemeLit == <<"h","t","t","p","s",":","/","/">>
HttpLit == <<"h","t","t","p",":","/","/">>
DpLit == <<"/","d","p","/">>
GpProductLit == <<"/","g","p","/","p","r","o","d","u","c","t","/">>
GpAwDLit == <<"/","g","p","/","a","w","/","d","/">>
GpOfferLit == <<"/","g","p","/","o","f","f","e","r","-","l","i","s","t","i","n","g","/">>

\* the alternation (?:dp|gp\/product|gp\/aw\/d|gp\/offer-listing) with its slashes
ProductPrefixes == {DpLit, GpProductLit, GpAwDLit, GpOfferLit}

\* leftmost match of  /<lit>([A-Z0-9]{10})  for lit in lits, group 1; Null if none
MatchPrefixed(s, lits) ==
    LET P == {p \in 1..Len(s) :
                \E lit \in lits : HasLitI(s, p, lit) /\ HasAsinAt(s, p + Len(lit))}
    IN  IF P = {} THEN Null
        ELSE LET p == MinOf(P)
                 lit == CHOOSE l \in lits : HasLitI(s, p, l) /\ HasAsinAt(s, p + Len(l))
             IN  SubSeq(s, p + Len(lit), p + Len(lit) + 9)

\* leftmost match of  /\/([A-Z0-9]{10})(?:[/?#]|$)/i , group 1; Null if none
MatchBareSegment(s) ==
    LET P == {p \in 1..Len(s) :
                /\ s[p] = "/"
                /\ HasAsinAt(s, p + 1)
                /\ \/ p + 10 = Len(s)
                   \/ s[p + 11] \in {"/", "?", "#"}}
    IN  IF P = {} THEN Null ELSE SubSeq(s, MinOf(P) + 1, MinOf(P) + 10)

\* length of the scheme prefix of url ("https://" or "http://", any case), 0 if none
SchemeLen(url) ==
    IF HasLitI(url, 1, SchemeLit) THEN Len(SchemeLit)
    ELSE IF HasLitI(url, 1, HttpLit) THEN Len(HttpLit)
    ELSE 0

\* new URL(url) throws unless the string has a scheme followed by a host; the
\* URLs of the model start with "https://" or "http://" or have no scheme
UrlParses(url) ==
    /\ SchemeLen(url) > 0
    /\ Len(url) > SchemeLen(url)
    /\ url[SchemeLen(url) + 1] \notin {"/", "?", "#"}

\* the part of the URL after the scheme
AfterScheme(url) == SubSeq(url, SchemeLen(url) + 1, Len(url))

\* u.pathname: from the first "/" after the host up to "?" or "#"; "/" when empty
Pathname(url) ==
    LET r == AfterScheme(url)
        a == FirstOf(r, {"/", "?", "#"})
        b == FirstOf(r, {"?", "#"})
    IN  IF a > Len(r) \/ r[a] # "/" THEN <<"/">> ELSE SubSeq(r, a, b - 1)

\* u.search without the leading "?": from after the first "?" up to "#"
SearchOf(url) ==
    LET r == AfterScheme(url)
        h == FirstOf(r, {"#"})
        q == FirstOf(r, {"?"})
    IN  IF q >= h THEN <<>> ELSE SubSeq(r, q + 1, h - 1)

\* the "&"-separated pieces of a query string, in order
RECURSIVE SplitAmp(_)
SplitAmp(q) ==
    IF q = <<>> THEN <<>>
    ELSE LET a == FirstOf(q, {"&"})
         IN  <<SubSeq(q, 1, a - 1)>> \o
             (IF a >= Len(q) THEN <<>> ELSE SplitAmp(SubSeq(q, a + 1, Len(q))))

\* URLSearchParams.get(name): value of the first pair named exactly name, else Null
SearchParamsGet(url, name) ==
    LET parts == SplitAmp(SearchOf(url))
        key(p) == SubSeq(p, 1, FirstOf(p, {"="}) - 1)
        val(p) == SubSeq(p, FirstOf(p, {"="}) + 1, Len(p))
        I == {i \in 1..Len(parts) : key(parts[i]) = name}
    IN  IF I = {} THEN Null ELSE val(parts[MinOf(I)])

AsinLit == <<"a","s","i","n">>

\* a JavaScript value used as a condition: null and "" are falsy
Truthy(v) == v # Null /\ v # <<>>

\* a || b on text values
OrText(a, b) == IF Truthy(a) THEN a ELSE b

\* /^[A-Z0-9]{10}$/i
IsAsinText(v) == v # Null /\ Len(v) = 10 /\ HasAsinAt(v, 1)

\* u.searchParams.get('asin') || u.searchParams.get('ASIN')
QueryAsin(url) ==
    OrText(SearchParamsGet(url, AsinLit), SearchParamsGet(url, toUpperCase(AsinLit)))

\* the returns of the try block with the bare-segment rule tried first
PickAsinBareFirst(m1, m2, qp) ==
    IF m2 # Null THEN toUpperCase(m2)
    ELSE IF m1 # Null THEN toUpperCase(m1)
    ELSE IF Truthy(qp) /\ IsAsinText(qp) THEN toUpperCase(qp)
    ELSE Null

\* the three returns of the try block, given m1, m2 and qp
PickAsin(m1, m2, qp) ==
    IF m1 # Null THEN toUpperCase(m1)
    ELSE IF m2 # Null THEN toUpperCase(m2)
    ELSE IF Truthy(qp) /\ IsAsinText(qp) THEN toUpperCase(qp)
    ELSE Null

\* m ? m[1].toUpperCase() : null
UpperOrNull(m) == IF m # Null THEN toUpperCase(m) ELSE Null

\* extractASIN of the two API scripts (the same text in both files)
extractASIN(url) ==
    IF UrlParses(url)
    THEN PickAsin(MatchPrefixed(Pathname(url), ProductPrefixes),
                  MatchBareSegment(Pathname(url)),
                  QueryAsin(url))
    ELSE UpperOrNull(MatchPrefixed(url, ProductPrefixes))

\* the two returns of extractASINFromUrl, given dpMatch and gpMatch (group 1 as matched)
PickMatch(dpMatch, gpMatch) ==
    IF dpMatch # Null THEN dpMatch
    ELSE IF gpMatch # Null THEN gpMatch
    ELSE Null

\* extractASINFromUrl of the scraper: searches the raw string
extractASINFromUrl(url) ==
    PickMatch(MatchPrefixed(url, {DpLit}), MatchPrefixed(url, {GpProductLit}))

(***************************************************************************)
(* Reading an input file: split, trim, drop blank lines, normalise         *)
(***************************************************************************)
Whitespace == {" ", "\t", "\r"}

\* String.prototype.trim
trim(s) ==
    LET K == {i \in 1..Len(s) : s[i] \notin Whitespace}
    IN  IF K = {} THEN <<>>
        ELSE SubSeq(s, MinOf(K), CHOOSE x \in K : \A y \in K : x >= y)

AmznToLit == <<"a","m","z","n",".","t","o","/">>
WwwLit == <<"w","w","w",".">>
AmazonComLit == <<"a","m","a","z","o","n",".","c","o","m","/">>
AmazonDotLit == <<"a","m","a","z","o","n",".">>

\* normalizeUrl of the Keepa script
normalizeUrl(raw) ==
    LET url == trim(raw)
    IN  IF url = <<>> THEN url
        ELSE IF SchemeLen(url) > 0 THEN url
        ELSE IF HasLitI(url, 1, AmznToLit) THEN SchemeLit \o url
        ELSE IF HasLitI(url, 1, WwwLit) THEN SchemeLit \o url
        ELSE IF HasLitI(url, 1, AmazonComLit) THEN SchemeLit \o WwwLit \o url
        ELSE IF HasLitI(url, 1, AmazonDotLit)
             THEN SchemeLit \o WwwLit \o AmazonDotLit
                  \o SubSeq(url, Len(AmazonDotLit) + 1, Len(url))
        ELSE SchemeLit \o url

\* Array.prototype.filter / map on sequences
RECURSIVE FilterNonEmpty(_)
FilterNonEmpty(ls) ==
    IF ls = <<>> THEN <<>>
    ELSE (IF Head(ls) = <<>> THEN <<>> ELSE <<Head(ls)>>) \o FilterNonEmpty(Tail(ls))

\* the `lines` of processTxtFile: text is the file already split on "\n"
ReadLines(script, text) ==
    LET trimmed == [i \in 1..Len(text) |-> trim(text[i])]
        kept == FilterNonEmpty(trimmed)
    IN  IF script = "keepa" THEN [i \in 1..Len(kept) |-> normalizeUrl(kept[i])] ELSE kept

(***************************************************************************)
(* Deduplicator: the forEach of processTxtFile                             *)
(***************************************************************************)
EmptyRegistry ==
    [asins |-> <<>>, asinSeen |-> <<>>, asinToLink |-> <<>>, duplicates |-> <<>>]

\* asinSeen and asinToLink are Maps, kept as sequences of <<key, value>> in
\* insertion order
MapHas(m, k) == \E i \in 1..Len(m) : m[i][1] = k
MapGet(m, k) == m[CHOOSE i \in 1..Len(m) : m[i][1] = k][2]

\* a callback without the asinSeen.has test: every occurrence is registered
RegisterAlways(reg, asin, url, idx) ==
    IF asin = Null THEN reg
    ELSE [reg EXCEPT !.asinSeen = Append(@, <<asin, idx + 1>>),
                     !.asins = Append(@, asin),
                     !.asinToLink = Append(@, <<asin, url>>)]

\* a callback that records the duplicate against the line before the current one
RegisterPrevLine(reg, asin, url, idx) ==
    IF asin = Null THEN reg
    ELSE IF MapHas(reg.asinSeen, asin)
    THEN [reg EXCEPT !.duplicates =
             Append(@, [asin |-> asin, line1 |-> idx, line2 |-> idx + 1])]
    ELSE [reg EXCEPT !.asinSeen = Append(@, <<asin, idx + 1>>),
                     !.asins = Append(@, asin),
                     !.asinToLink = Append(@, <<asin, url>>)]

\* the body of the forEach callback once asin is extracted, idx 0-based as in the code
Register(reg, asin, url, idx) ==
    IF asin = Null THEN reg
    ELSE IF MapHas(reg.asinSeen, asin)
    THEN [reg EXCEPT !.duplicates =
             Append(@, [asin |-> asin, line1 |-> MapGet(reg.asinSeen, asin),
                        line2 |-> idx + 1])]
    ELSE [reg EXCEPT !.asinSeen = Append(@, <<asin, idx + 1>>),
                     !.asins = Append(@, asin),
                     !.asinToLink = Append(@, <<asin, url>>)]

\* one call of the forEach callback
DedupStep(reg, url, idx) == Register(reg, extractASIN(url), url, idx)

RECURSIVE DedupFrom(_, _, _)
DedupFrom(reg, lines, idx) ==
    IF idx >= Len(lines) THEN reg
    ELSE \* r is the registry after the callback on line idx, computed before the next call
         CHOOSE out \in {DedupFrom(r, lines, idx + 1) :
                             r \in {DedupStep(reg, lines[idx + 1], idx)}} : TRUE

Dedup(lines) == DedupFrom(EmptyRegistry, lines, 0)

(***************************************************************************)
(* Batcher                                                                 *)
(***************************************************************************)
\* Array.prototype.slice(from, to) with 0-based, clamped bounds
slice(arr, from, to) ==
    LET a == Min(Max(from, 0), Len(arr))
        b == Min(Max(to, 0), Len(arr))
    IN  IF a >= b THEN <<>> ELSE SubSeq(arr, a + 1, b)

\* Math.floor in place of Math.ceil
FloorDiv(n, size) == n \div size

\* Math.ceil(n / size) for n >= 0, size > 0
CeilDiv(n, size) == (n + size - 1) \div size

chunk(arr, size) ==
    [k \in 1..CeilDiv(Len(arr), size) |-> slice(arr, (k - 1) * size, (k - 1) * size + size)]

(***************************************************************************)
(* Numbers.  A money amount is an integer number of mills (0.001 USD), so  *)
(* that amounts with more than two decimals exist and toFixed(2) rounds.   *)
(* A percentage is kept exactly as <<numerator, denominator>> until it is  *)
(* rounded; a rounded percentage is an integer number of hundredths.       *)
(* An optional number is <<>> (null / undefined) or <<x>>.                 *)
(***************************************************************************)
NoNum == <<>>
Num(x) == <<x>>
IsNum(v) == v # NoNum
Val(v) == v[1]

Abs(x) == IF x < 0 THEN -x ELSE x

\* num/den rounded to the nearest integer, halves away from zero (den # 0)
RoundQ(num, den) ==
    LET q == (2 * Abs(num) + Abs(den)) \div (2 * Abs(den))
    IN  IF (num < 0) = (den < 0) THEN q ELSE -q

\* Number(x.toFixed(2)) for x in mills: the nearest whole cent, in mills
ToFixed2(x) == RoundQ(x, 10) * 10

\* a number used as a condition: null, undefined and 0 are falsy
TruthyNum(v) == IsNum(v) /\ Val(v) # 0

\* Number.isFinite(v) && v > 0
FinitePositive(v) == IsNum(v) /\ Val(v) > 0

\* fmtUsd of the API scripts
fmtUsd(price) == IF price = NoNum THEN NoNum ELSE Num(ToFixed2(Val(price)))

\* pct of the API scripts: the exact quotient (o - c) / o * 100, or 0
pct(originalPrice, currentPrice) ==
    IF TruthyNum(originalPrice) /\ TruthyNum(currentPrice)
    THEN <<(Val(originalPrice) - Val(currentPrice)) * 100, Val(originalPrice)>>
    ELSE <<0, 1>>

\* Number(discountPct.toFixed(2)), in hundredths of a percent
PctToFixed2(q) == RoundQ(q[1] * 100, q[2])

\* keepaToUSD: p is Keepa's integer of cents; the result is in mills
keepaToUSD(p) ==
    IF ~IsNum(p) \/ Val(p) <= 0 THEN NoNum ELSE Num(ToFixed2(Val(p) * 10))

\* a ?? b on optional numbers
Coalesce(a, b) == IF IsNum(a) THEN a ELSE b

AmazonDpLit == SchemeLit \o WwwLit \o AmazonComLit \o <<"d","p","/">>

\* summarizePA: item is [ASIN, title, price, basis, image, detailUrl]
summarizePA(item, linkFallback) ==
    LET title == OrText(item.title, item.ASIN)
        current == item.price
        original == item.basis
        imageUrl == OrText(item.image, Null)
        link == OrText(item.detailUrl,
                  OrText(linkFallback,
                         IF Truthy(item.ASIN) THEN AmazonDpLit \o item.ASIN ELSE Null))
        needCheckManually == ~FinitePositive(current) \/ ~FinitePositive(original)
        discountPct == pct(original, current)
        discountAmt == IF TruthyNum(original) /\ TruthyNum(current)
                       THEN Val(original) - Val(current) ELSE 0
        hasDiscount == discountAmt > 0
    IN  [source |-> "paapi", asin |-> item.ASIN, title |-> title, link |-> link,
         original |-> original, current |-> current, discountPct |-> discountPct,
         discountAmt |-> discountAmt, needCheckManually |-> needCheckManually,
         imageUrl |-> imageUrl, hasDiscount |-> hasDiscount]

KeepaImageLit == SchemeLit \o <<"m",".","m","e","d","i","a","-","a","m","a","z","o","n",
                               ".","c","o","m","/","i","m","a","g","e","s","/","I","/">>

\* getKeepaImageUrl: product.image is the name images[0].l, or Null
getKeepaImageUrl(product) ==
    IF Truthy(product.image) THEN KeepaImageLit \o product.image ELSE Null

AffiliateDomain == WwwLit \o SubSeq(AmazonComLit, 1, Len(AmazonComLit) - 1)
TagParamLit == <<"?","t","a","g","=">>

\* buildAffiliateLink of the Keepa script; tag is AMAZON_ASSOCIATE_TAG or ""
buildAffiliateLink(tag, asin) ==
    IF tag = <<>>
    THEN SchemeLit \o AffiliateDomain \o DpLit \o asin
    ELSE SchemeLit \o AffiliateDomain \o DpLit \o asin \o TagParamLit \o tag

\* summarizeKeepa: product is [asin, title, c, o, avg, image] with
\* c = stats.current[0], o = stats.current[4], avg = stats.avg90[0]
summarizeKeepa(tag, product, link) ==
    LET title == OrText(product.title, product.asin)
        hasC == FinitePositive(product.c)
        hasO == FinitePositive(product.o)
        needCheckManually == ~hasC \/ ~hasO
        current == keepaToUSD(product.c)
        original == keepaToUSD(Coalesce(product.o, Coalesce(product.avg, NoNum)))
        discountPct == pct(original, current)
        discountAmt == IF TruthyNum(original) /\ TruthyNum(current)
                       THEN Val(original) - Val(current) ELSE 0
        hasDiscount == discountAmt > 0
    IN  [source |-> "keepa", asin |-> product.asin, title |-> title, link |-> link,
         original |-> original, current |-> current, discountPct |-> discountPct,
         discountAmt |-> discountAmt, needCheckManually |-> needCheckManually,
         imageUrl |-> getKeepaImageUrl(product), hasDiscount |-> hasDiscount,
         affiliateLink |-> buildAffiliateLink(tag, product.asin)]

\* one element of dealRows (both API scripts; AffiliateLink only in Keepa's)
DealRow(r) ==
    LET row == [ASIN |-> r.asin, Title |-> OrText(r.title, r.asin), Link |-> r.link,
                Original |-> fmtUsd(r.original), Current |-> fmtUsd(r.current),
                Image |-> r.imageUrl, NeedCheckManually |-> r.needCheckManually,
                HasDiscount |-> r.hasDiscount,
                DiscountPct |-> Num(PctToFixed2(r.discountPct)),
                YouSave |-> fmtUsd(Num(r.discountAmt))]
    IN  IF r.source = "keepa"
        THEN [f \in DOMAIN row \cup {"AffiliateLink"} |->
                IF f = "AffiliateLink" THEN r.affiliateLink ELSE row[f]]
        ELSE row

\* the characters /[^\d.,]/g leaves in place
IsPriceChar(c) == IsDigit(c) \/ c \in {".", ","}

\* String.prototype.replace with a string pattern: only the first occurrence
replaceFirst(str, ch) ==
    LET p == FirstOf(str, {ch})
    IN  IF p > Len(str) THEN str ELSE SubSeq(str, 1, p - 1) \o SubSeq(str, p + 1, Len(str))

\* the decimal digits at the start of str
LeadingDigits(str) ==
    LET K == {k \in 1..Len(str) : ~IsDigit(str[k])}
    IN  SubSeq(str, 1, IF K = {} THEN Len(str) ELSE MinOf(K) - 1)

DigitVal(c) == (CHOOSE k \in 1..10 : DigitChars[k] = c) - 1

RECURSIVE DigitsVal(_)
DigitsVal(ds) ==
    IF ds = <<>> THEN 0 ELSE DigitsVal(SubSeq(ds, 1, Len(ds) - 1)) * 10 + DigitVal(ds[Len(ds)])

\* parseFloat on a string of digits, "." and ",": the longest prefix of the
\* form digits[.digits]; NaN (NoNum) when that prefix has no digit. The value
\* is in thousandths, the resolution of every amount of the model
parseFloat(str) ==
    LET int == LeadingDigits(str)
        rest == SubSeq(str, Len(int) + 1, Len(str))
        frac == IF rest # <<>> /\ Head(rest) = "." THEN LeadingDigits(Tail(rest)) ELSE <<>>
        f3 == SubSeq(frac \o <<"0","0","0">>, 1, 3)
    IN  IF int = <<>> /\ frac = <<>> THEN NoNum
        ELSE Num(DigitsVal(int) * 1000 + DigitsVal(f3))

\* parsePriceText of the scraper; every value parseFloat gives here is finite
parsePriceText(text) ==
    IF ~Truthy(text) THEN NoNum
    ELSE parseFloat(replaceFirst(SelectSeq(text, IsPriceChar), ","))

\* computeDiscount of the scraper
computeDiscount(original, current) ==
    IF original = NoNum \/ current = NoNum
    THEN [hasDiscount |-> FALSE, pct |-> NoNum, save |-> NoNum]
    ELSE IF Val(current) >= Val(original)
    THEN [hasDiscount |-> FALSE, pct |-> Num(0), save |-> Num(0)]
    ELSE LET diff == Val(original) - Val(current)
         IN  [hasDiscount |-> TRUE,
              pct |-> Num(RoundQ(diff * 10000, Val(original))),
              save |-> Num(ToFixed2(diff))]

\* the record scrapeAmazonProduct returns, given what the page gave: title
\* (rawTitle || null), the parsed prices, and pictureRef (?? null)
ScrapedDeal(tag, url, title, originalParsed, current, pictureRef) ==
    LET asin == extractASINFromUrl(url)
        original == IF originalParsed = NoNum /\ current # NoNum THEN current
                    ELSE originalParsed
        d == computeDiscount(original, current)
        needCheck == \/ ~Truthy(title) \/ ~Truthy(pictureRef)
                     \/ original = NoNum \/ current = NoNum \/ asin = Null
        affiliateLink == IF Truthy(asin) /\ tag # <<>>
                         THEN AmazonDpLit \o asin \o TagParamLit \o tag
                         ELSE IF Truthy(asin) THEN AmazonDpLit \o asin
                         ELSE Null
    IN  [ASIN |-> asin, Title |-> title, Link |-> url, Original |-> original,
         Current |-> current, Image |-> pictureRef, NeedCheckManually |-> needCheck,
         HasDiscount |-> d.hasDiscount, DiscountPct |-> d.pct, YouSave |-> d.save,
         AffiliateLink |-> affiliateLink]

\* a sort key under which a null percentage comes after every number
SortKeyNullLast(deal) == IF deal.DiscountPct = NoNum THEN -1 ELSE Val(deal.DiscountPct)

\* (x.DiscountPct ?? 0) of the comparator
SortKey(deal) == IF deal.DiscountPct = NoNum THEN 0 ELSE Val(deal.DiscountPct)

\* the comparator of deals.sort: negative when a goes before b
CompareDeals(a, b) == SortKey(b) - SortKey(a)

\* one step of a stable sort: x goes after every element it does not precede
InsertDeal(sorted, x) ==
    LET before == {i \in 1..Len(sorted) : CompareDeals(x, sorted[i]) < 0}
        at == IF before = {} THEN Len(sorted) + 1 ELSE MinOf(before)
    IN  SubSeq(sorted, 1, at - 1) \o <<x>> \o SubSeq(sorted, at, Len(sorted))

RECURSIVE SortFrom(_, _)
SortFrom(sorted, rest) ==
    IF rest = <<>> THEN sorted ELSE SortFrom(InsertDeal(sorted, Head(rest)), Tail(rest))

\* deals.sort((a, b) => (b.DiscountPct ?? 0) - (a.DiscountPct ?? 0)); Array.prototype.sort
\* is stable
sortedDeals(deals) == SortFrom(<<>>, deals)

(***************************************************************************)
(* Configuration                                                           *)
(***************************************************************************)
PAAPI_ITEMS_PER_BATCH == 10
KEEPA_ITEMS_PER_BATCH == 20
PAAPI_SLEEP_BETWEEN_BATCHES_MS == 1250
KEEPA_SLEEP_BETWEEN_BATCHES_MS == 60000

\* one batch per identifier
OneItemPerBatch(scr) == 1

ITEMS_PER_BATCH(scr) ==
    IF scr = "paapi" THEN PAAPI_ITEMS_PER_BATCH ELSE KEEPA_ITEMS_PER_BATCH
SLEEP_BETWEEN_BATCHES_MS(scr) ==
    IF scr = "paapi" THEN PAAPI_SLEEP_BETWEEN_BATCHES_MS ELSE KEEPA_SLEEP_BETWEEN_BATCHES_MS

TxtExtLit == <<".","t","x","t">>
AppleTxt == <<"a","p","p","l","e">> \o TxtExtLit
SonyTxt == <<"s","o","n","y">> \o TxtExtLit
TodayTxt == <<"t","o","d","a","y">> \o TxtExtLit
SELECTED_TXT_FILES == <<AppleTxt, SonyTxt, TodayTxt>>

(***************************************************************************)
(* Bounds of the model and the inputs of a run                             *)
(***************************************************************************)
\* entries of the input directory in a script run / when the module is imported
MaxFiles == 2
MaxImportFiles == 1
\* Date.now() when the process starts, in ms; larger than both intervals
StartTime == 100000

Scripts == {"paapi", "keepa"}
Mains == {1, 2}

\* the k-th catalog identifier of the model, k in 0..99
Asin(k) == <<"B","0","0","0","0","0","0","0", DigitChars[(k \div 10) + 1], DigitChars[(k % 10) + 1]>>

ProductUrl(asin) == AmazonDpLit \o asin

AsinUpper == <<"B","0","0","0","1","1","1","2","2","2">>
AsinOther == <<"B","0","0","0","9","9","9","8","8","8">>

\* the texts of the input files, by content id, already split on "\n"
FileText(scr, content) ==
    CASE content = "none" -> << <<>>, SchemeLit \o AffiliateDomain \o <<"/","d","e","a","l","s">> >>
      [] content = "one" ->
            << ProductUrl(Asin(1)), <<" ">>,
               <<" ">> \o toLowerCase(ProductUrl(Asin(1))) \o <<"\r">> >>
      [] content = "other" -> << ProductUrl(Asin(3)) >>
      [] content = "e2e" ->
            << ProductUrl(AsinUpper), ProductUrl(AsinUpper),
               ProductUrl(AsinOther) \o <<"7">> \o TagParamLit \o <<"x">> >>
      [] content = "long" ->
            [k \in 1..(ITEMS_PER_BATCH(scr) + 2) |->
                IF k = ITEMS_PER_BATCH(scr) + 2 THEN ProductUrl(Asin(1)) ELSE ProductUrl(Asin(k))]

Contents == {"none", "one", "other", "long"}

AppleTXT == <<"a","p","p","l","e",".","T","X","T">>
NotesTxt == <<"n","o","t","e","s">> \o TxtExtLit
AppleMd == <<"a","p","p","l","e",".","m","d">>

\* what readdir may return: files with a content, a file that is no .txt, a directory
EntryChoices ==
    {[name |-> n, isFile |-> TRUE, content |-> c] : n \in {AppleTxt, AppleTXT, NotesTxt}, c \in Contents}
    \cup {[name |-> AppleMd, isFile |-> TRUE, content |-> "none"],
          [name |-> SonyTxt, isFile |-> FALSE, content |-> "none"]}

\* directory listings of at most n entries with distinct names, in readdir order
Listings(n) ==
    UNION {{l \in [1..k -> EntryChoices] :
              \A i \in 1..k : \A j \in 1..k : i # j => l[i].name # l[j].name} : k \in 0..n}

(***************************************************************************)
(* The provider: a fixed catalogue, so that a batch has one response       *)
(***************************************************************************)
TitleLit == <<"T","i","t","l","e">>
ImageLit == <<"i","m","g",".","j","p","g">>

\* identifiers the provider does not return (delisted)
Delisted(asin) == asin[10] = "9"

PaapiItem(asin) ==
    LET d == asin[10]
    IN  [ASIN |-> asin,
         title |-> IF d = "6" THEN Null ELSE TitleLit,
         price |-> CASE d = "1" -> Num(19990) [] d = "3" -> Num(20000)
                     [] d = "5" -> Num(10000) [] d = "8" -> Num(0) [] OTHER -> Num(15000),
         basis |-> CASE d = "1" -> Num(29990) [] d = "3" -> Num(10000)
                     [] d = "5" -> Num(10001) [] d = "4" -> NoNum [] OTHER -> Num(15000),
         image |-> IF d = "7" THEN Null ELSE SchemeLit \o ImageLit,
         detailUrl |-> IF d = "0" THEN Null ELSE ProductUrl(asin) \o TagParamLit \o <<"p">>]

KeepaProduct(asin) ==
    LET d == asin[10]
    IN  [asin |-> asin,
         title |-> IF d = "6" THEN Null ELSE TitleLit,
         c |-> CASE d = "1" -> Num(1999) [] d = "3" -> Num(2000)
                 [] d = "8" -> Num(-1) [] OTHER -> Num(1500),
         o |-> CASE d = "1" -> Num(2999) [] d = "3" -> Num(1000)
                 [] d = "4" -> NoNum [] d = "5" -> Num(-1) [] OTHER -> Num(1500),
         avg |-> IF d = "4" THEN Num(1800) ELSE NoNum,
         image |-> IF d = "7" THEN Null ELSE ImageLit]

RECURSIVE ProviderItems(_, _)
\* the items the provider returns for a batch: its listed identifiers, in order
ProviderItems(scr, batch) ==
    IF batch = <<>> THEN <<>>
    ELSE (IF Delisted(Head(batch)) THEN <<>>
          ELSE <<IF scr = "paapi" THEN PaapiItem(Head(batch)) ELSE KeepaProduct(Head(batch))>>)
         \o ProviderItems(scr, Tail(batch))

(***************************************************************************)
(* State of a run                                                          *)
(***************************************************************************)
VARIABLES
    script,       \* which API script runs: "paapi" or "keepa"
    hasKey,       \* the provider credentials are set in the environment
    affiliateTag, \* AMAZON_ASSOCIATE_TAG, "" when unset
    inputDir,     \* INPUT_DIR: [exists, entries]
    fs,           \* OUTPUT_ROOT: [root, dirs, files]
    clock,        \* Date.now()
    lastFetchAt,  \* the rate limiter's module-level timestamp
    exitCode,     \* -1 while the process runs, then its exit code
    diag,         \* the stage named by the last error message
    inflight,     \* provider requests sent and not yet answered
    pc,           \* per call of main(): the await it is suspended at
    txtFiles,     \* per call of main(): the files to process
    fileIdx,      \* per call of main(): index in txtFiles of the current file
    reg,          \* processTxtFile: asins, asinSeen, asinToLink, duplicates
    batchIdx,     \* processTxtFile: the loop variable i
    processed,    \* processTxtFile: processed
    wakeAt,       \* throttle: when the pending sleep(waitMs) is due
    dealRows,     \* processTxtFile: dealRows of the batch being persisted
    sent,         \* history: the batches passed to the provider client for the current file
    callStarts,   \* history: lastFetchAt at the last two calls of the provider client
    persisted,    \* history: <<path, rows>> of every successful writeFile of the process
    fin,          \* input of the pure function under check
    fout,         \* its result, <<>> before it is applied
    inputTxt,     \* scraper: the text of the input file, split on "\n"
    dealsJson,    \* scraper: deals.json: [exists, deals]
    scrapePc,     \* scraper: the await its main() is suspended at
    urls,         \* scraper main: urls
    urlIdx,       \* scraper main: the loop variable i
    deals         \* scraper main: deals

runVars == <<script, hasKey, affiliateTag, inputDir, fs, clock, lastFetchAt, exitCode, diag,
             inflight, pc, txtFiles, fileIdx, reg, batchIdx, processed, wakeAt, dealRows,
             sent, callStarts, persisted>>
fnVars == <<fin, fout>>
scrapeVars == <<inputTxt, dealsJson, scrapePc, urls, urlIdx, deals>>
vars == <<runVars, fnVars, scrapeVars>>

EmptyFs == [root |-> FALSE, dirs |-> {}, files |-> <<>>]

\* what an earlier run of the program left under OUTPUT_ROOT
StaleRows == <<[ASIN |-> Asin(0)]>>
StaleFs == [root |-> TRUE, dirs |-> {<<"a","p","p","l","e">>},
            files |-> (<< <<"a","p","p","l","e">>, 1, 1 >> :> StaleRows)]

(***************************************************************************)
(* File names                                                              *)
(***************************************************************************)
\* String.prototype.endsWith
endsWith(str, suffix) ==
    Len(suffix) <= Len(str) /\ HasLit(str, Len(str) - Len(suffix) + 1, suffix)

\* baseNameWithExt.replace(/\.[^/.]+$/, '')
BaseName(nameWithExt) ==
    LET D == {i \in 1..Len(nameWithExt) : nameWithExt[i] = "."}
        last == CHOOSE i \in D : \A j \in D : j <= i
    IN  IF D = {} THEN nameWithExt
        ELSE IF last = Len(nameWithExt) THEN nameWithExt
        ELSE IF \E i \in (last + 1)..Len(nameWithExt) : nameWithExt[i] = "/" THEN nameWithExt
        ELSE SubSeq(nameWithExt, 1, last - 1)

\* txtFiles of main: the .txt files, and for Keepa those named in SELECTED_TXT_FILES
TxtFilesOf(scr, entries) ==
    LET isTxt(e) == e.isFile /\ endsWith(toLowerCase(e.name), TxtExtLit)
        selectedSet == {toLowerCase(SELECTED_TXT_FILES[i]) : i \in 1..Len(SELECTED_TXT_FILES)}
        isSelected(e) == toLowerCase(e.name) \in selectedSet
        txt == SelectSeq(entries, isTxt)
    IN  IF scr = "keepa" /\ Len(SELECTED_TXT_FILES) > 0
        THEN SelectSeq(txt, isSelected)
        ELSE txt

\* outFile of a batch: <<directory under the output root, startIdx, endIdx>>, standing
\* for  <outRoot>/<baseName>/<baseName><startIdx>-<endIdx>.json
OutFile(baseName, startIdx, endIdx) == <<baseName, startIdx, endIdx>>

(***************************************************************************)
(* Positions of a call of main() and what they refer to                    *)
(***************************************************************************)
CurFile(m) == txtFiles[m][fileIdx[m]]
CurBase(m) == BaseName(CurFile(m).name)
Batches(m) == chunk(reg[m].asins, ITEMS_PER_BATCH(script))
CurBatch(m) == Batches(m)[batchIdx[m] + 1]
StartIdx(m) == processed[m] + 1
\* an end index counted from the items the provider returned
EndIdxReturned(m) == processed[m] + Len(dealRows[m])
EndIdx(m) == processed[m] + Len(CurBatch(m))

Running == exitCode = -1

\* process.exit(1): every call of main() stops where it is
Exit1(stage) ==
    /\ exitCode' = 1
    /\ diag' = stage
    /\ pc' = [m \in Mains |-> IF pc[m] = "off" THEN "off" ELSE "dead"]
    /\ inflight' = 0

\* the end of processTxtFile: main's for loop takes the next file or ends
NextFile(m) ==
    IF fileIdx[m] < Len(txtFiles[m])
    THEN /\ fileIdx' = [fileIdx EXCEPT ![m] = @ + 1]
         /\ pc' = [pc EXCEPT ![m] = "fileMkdir"]
    ELSE /\ fileIdx' = fileIdx
         /\ pc' = [pc EXCEPT ![m] = "done"]

(***************************************************************************)
(* main()                                                                  *)
(***************************************************************************)
\* a main that goes on to the cleaning of the output root without the access check
MainAccessUnchecked(m) ==
    /\ Running /\ pc[m] = "start"
    /\ pc' = [pc EXCEPT ![m] = "rm"]
    /\ UNCHANGED <<script, hasKey, affiliateTag, inputDir, fs, clock, lastFetchAt, txtFiles,
                   fileIdx, reg, batchIdx, processed, wakeAt, dealRows, sent, callStarts,
                   persisted, exitCode, diag, inflight, fnVars, scrapeVars>>

\* await fs.access(INPUT_DIR).catch(() => process.exit(1))
MainAccess(m) ==
    /\ Running /\ pc[m] = "start"
    /\ IF inputDir.exists
       THEN /\ pc' = [pc EXCEPT ![m] = "rm"]
            /\ UNCHANGED <<exitCode, diag, inflight>>
       ELSE Exit1("inputdir")
    /\ UNCHANGED <<script, hasKey, affiliateTag, inputDir, fs, clock, lastFetchAt, txtFiles,
                   fileIdx, reg, batchIdx, processed, wakeAt, dealRows, sent, callStarts, persisted, fnVars, scrapeVars>>

\* await fs.rm(OUTPUT_ROOT, { recursive: true, force: true })
MainRm(m) ==
    /\ Running /\ pc[m] = "rm"
    /\ fs' = EmptyFs
    /\ pc' = [pc EXCEPT ![m] = "mkdirRoot"]
    /\ UNCHANGED <<script, hasKey, affiliateTag, inputDir, clock, lastFetchAt, exitCode, diag,
                   inflight, txtFiles, fileIdx, reg, batchIdx, processed, wakeAt, dealRows,
                   sent, callStarts, persisted, fnVars, scrapeVars>>

\* await fs.mkdir(OUTPUT_ROOT, { recursive: true })
MainMkdirRoot(m) ==
    /\ Running /\ pc[m] = "mkdirRoot"
    /\ fs' = [fs EXCEPT !.root = TRUE]
    /\ pc' = [pc EXCEPT ![m] = "readdir"]
    /\ UNCHANGED <<script, hasKey, affiliateTag, inputDir, clock, lastFetchAt, exitCode, diag,
                   inflight, txtFiles, fileIdx, reg, batchIdx, processed, wakeAt, dealRows,
                   sent, callStarts, persisted, fnVars, scrapeVars>>

\* await fs.readdir(INPUT_DIR), the filters, and the start of the for loop
MainReaddir(m) ==
    /\ Running /\ pc[m] = "readdir"
    /\ LET files == TxtFilesOf(script, inputDir.entries)
       IN  /\ txtFiles' = [txtFiles EXCEPT ![m] = files]
           /\ IF files = <<>>
              THEN /\ pc' = [pc EXCEPT ![m] = "done"]
                   /\ fileIdx' = fileIdx
              ELSE /\ pc' = [pc EXCEPT ![m] = "fileMkdir"]
                   /\ fileIdx' = [fileIdx EXCEPT ![m] = 1]
    /\ UNCHANGED <<script, hasKey, affiliateTag, inputDir, fs, clock, lastFetchAt, exitCode,
                   diag, inflight, reg, batchIdx, processed, wakeAt, dealRows, sent,
                   callStarts, persisted, fnVars, scrapeVars>>

\* an awaited fs call of main or of the head of processTxtFile throws: main's catch
IoFail(m) ==
    /\ Running /\ pc[m] \in {"rm", "mkdirRoot", "readdir", "fileMkdir", "fileRead"}
    /\ Exit1("io")
    /\ UNCHANGED <<script, hasKey, affiliateTag, inputDir, fs, clock, lastFetchAt, txtFiles,
                   fileIdx, reg, batchIdx, processed, wakeAt, dealRows, sent, callStarts, persisted, fnVars, scrapeVars>>

(***************************************************************************)
(* processTxtFile                                                          *)
(***************************************************************************)
\* await fs.mkdir(outDir, { recursive: true })
FileMkdir(m) ==
    /\ Running /\ pc[m] = "fileMkdir"
    /\ fs' = [fs EXCEPT !.root = TRUE, !.dirs = @ \cup {CurBase(m)}]
    /\ pc' = [pc EXCEPT ![m] = "fileRead"]
    /\ UNCHANGED <<script, hasKey, affiliateTag, inputDir, clock, lastFetchAt, exitCode, diag,
                   inflight, txtFiles, fileIdx, reg, batchIdx, processed, wakeAt, dealRows,
                   sent, callStarts, persisted, fnVars, scrapeVars>>

\* the rest of processTxtFile's head once the registry r is built
EnterBatchLoop(m, r) ==
    /\ reg' = [reg EXCEPT ![m] = r]
    /\ IF Len(r.asins) = 0
       THEN NextFile(m)
       ELSE /\ pc' = [pc EXCEPT ![m] = "throttle"]
            /\ fileIdx' = fileIdx

\* await fs.readFile, the duplicate detection, chunk, and the start of the batch loop
FileRead(m) ==
    /\ Running /\ pc[m] = "fileRead"
    /\ EnterBatchLoop(m, Dedup(ReadLines(script, FileText(script, CurFile(m).content))))
    /\ batchIdx' = [batchIdx EXCEPT ![m] = 0]
    /\ processed' = [processed EXCEPT ![m] = 0]
    /\ sent' = [sent EXCEPT ![m] = <<>>]
    /\ UNCHANGED <<script, hasKey, affiliateTag, inputDir, fs, clock, lastFetchAt, exitCode,
                   diag, inflight, txtFiles, wakeAt, dealRows, callStarts, persisted, fnVars, scrapeVars>>

\* waitMs of the throttle
WaitMsElapsed(interval, elapsed) == elapsed
WaitMs(interval, elapsed) == interval - elapsed

\* throttlePaapi / throttleKeepa up to the await: reads Date.now() and lastFetchAt
ThrottleBegin(m) ==
    /\ Running /\ pc[m] = "throttle"
    /\ LET now == clock
           elapsed == now - lastFetchAt
           interval == SLEEP_BETWEEN_BATCHES_MS(script)
       IN  IF elapsed < interval
           THEN /\ wakeAt' = [wakeAt EXCEPT ![m] = now + WaitMs(interval, elapsed)]
                /\ pc' = [pc EXCEPT ![m] = "sleep"]
                /\ lastFetchAt' = lastFetchAt
           ELSE /\ lastFetchAt' = clock
                /\ pc' = [pc EXCEPT ![m] = "fetch"]
                /\ wakeAt' = wakeAt
    /\ UNCHANGED <<script, hasKey, affiliateTag, inputDir, fs, clock, exitCode, diag, inflight,
                   txtFiles, fileIdx, reg, batchIdx, processed, dealRows, sent, callStarts, persisted,
                   fnVars, scrapeVars>>

\* the timer of sleep(waitMs) fires, not before it is due; lastFetchAt = Date.now()
ThrottleWake(m) ==
    /\ Running /\ pc[m] = "sleep"
    /\ clock' = Max(clock, wakeAt[m])
    /\ lastFetchAt' = clock'
    /\ pc' = [pc EXCEPT ![m] = "fetch"]
    /\ UNCHANGED <<script, hasKey, affiliateTag, inputDir, fs, exitCode, diag, inflight,
                   txtFiles, fileIdx, reg, batchIdx, processed, wakeAt, dealRows, sent,
                   callStarts, persisted, fnVars, scrapeVars>>

\* a row for every registered identifier, returned or not
RowsPerRegistered(scr, tag, items, asinToLink) ==
    [k \in 1..Len(asinToLink) |-> [ASIN |-> asinToLink[k][1]]]

\* results.map(...) of processTxtFile: the dealRows of the items of a response
RowsOf(scr, tag, items, asinToLink) ==
    [k \in 1..Len(items) |->
        LET id == IF scr = "paapi" THEN items[k].ASIN ELSE items[k].asin
            link == IF MapHas(asinToLink, id) THEN MapGet(asinToLink, id) ELSE Null
        IN  DealRow(IF scr = "paapi" THEN summarizePA(items[k], link)
                    ELSE summarizeKeepa(tag, items[k], link))]

\* how long a provider answer may take, in ms
Latencies(scr) == {1, SLEEP_BETWEEN_BATCHES_MS(scr)}

\* a client that throws when the key is absent, in both scripts
FetchStartKeyRequired(m) ==
    /\ Running /\ pc[m] = "fetch"
    /\ sent' = [sent EXCEPT ![m] = Append(@, CurBatch(m))]
    /\ callStarts' = <<lastFetchAt>> \o SubSeq(callStarts, 1, Min(1, Len(callStarts)))
    /\ IF hasKey
       THEN /\ inflight' = inflight + 1
            /\ pc' = [pc EXCEPT ![m] = "fetching"]
            /\ UNCHANGED <<exitCode, diag>>
       ELSE Exit1("fetch")
    /\ UNCHANGED <<script, hasKey, affiliateTag, inputDir, fs, clock, lastFetchAt, txtFiles,
                   fileIdx, reg, batchIdx, processed, wakeAt, dealRows, persisted, fnVars, scrapeVars>>

\* fetchPaapiItems / fetchKeepaProducts up to the await of fetch(url)
FetchStart(m) ==
    /\ Running /\ pc[m] = "fetch"
    /\ sent' = [sent EXCEPT ![m] = Append(@, CurBatch(m))]
    /\ callStarts' = <<lastFetchAt>> \o SubSeq(callStarts, 1, Min(1, Len(callStarts)))
    /\ IF hasKey
       THEN /\ inflight' = inflight + 1
            /\ pc' = [pc EXCEPT ![m] = "fetching"]
            /\ UNCHANGED <<exitCode, diag, dealRows>>
       ELSE IF script = "keepa"
       THEN \* if (!key) return []
            /\ dealRows' = [dealRows EXCEPT ![m] = <<>>]
            /\ pc' = [pc EXCEPT ![m] = "access"]
            /\ UNCHANGED <<exitCode, diag, inflight>>
       ELSE \* PA-API credentials missing: throws inside the try of processTxtFile
            /\ Exit1("fetch")
            /\ dealRows' = dealRows
    /\ UNCHANGED <<script, hasKey, affiliateTag, inputDir, fs, clock, lastFetchAt, txtFiles,
                   fileIdx, reg, batchIdx, processed, wakeAt, persisted, fnVars, scrapeVars>>

\* the provider answers with a success status: items, results, dealRows
FetchReturn(m) ==
    /\ Running /\ pc[m] = "fetching"
    /\ \E d \in Latencies(script) : clock' = clock + d
    /\ inflight' = inflight - 1
    /\ dealRows' = [dealRows EXCEPT ![m] =
           RowsOf(script, affiliateTag, ProviderItems(script, CurBatch(m)), reg[m].asinToLink)]
    /\ pc' = [pc EXCEPT ![m] = "access"]
    /\ UNCHANGED <<script, hasKey, affiliateTag, inputDir, fs, lastFetchAt, exitCode, diag,
                   txtFiles, fileIdx, reg, batchIdx, processed, wakeAt, sent, callStarts, persisted,
                   fnVars, scrapeVars>>

\* a retry in place of the rethrow
FetchFailRetry(m) ==
    /\ Running /\ pc[m] = "fetching"
    /\ clock' = clock + 1
    /\ inflight' = inflight - 1
    /\ pc' = [pc EXCEPT ![m] = "throttle"]
    /\ diag' = "fetch"
    /\ UNCHANGED <<script, hasKey, affiliateTag, inputDir, fs, lastFetchAt, exitCode, txtFiles,
                   fileIdx, reg, batchIdx, processed, wakeAt, dealRows, sent, callStarts, persisted, fnVars, scrapeVars>>

\* fetch rejects or the status is not ok: catch, log, rethrow, main's catch, exit(1)
FetchFail(m) ==
    /\ Running /\ pc[m] = "fetching"
    /\ clock' = clock + 1
    /\ Exit1("fetch")
    /\ UNCHANGED <<script, hasKey, affiliateTag, inputDir, fs, lastFetchAt, txtFiles, fileIdx,
                   reg, batchIdx, processed, wakeAt, dealRows, sent, callStarts, persisted, fnVars, scrapeVars>>

\* an access check without its catch: a rejection reaches main's catch
AccessRethrows(m) ==
    /\ Running /\ pc[m] = "access"
    /\ \/ /\ pc' = [pc EXCEPT ![m] = "write"]
          /\ UNCHANGED <<exitCode, diag, inflight>>
       \/ Exit1("io")
    /\ UNCHANGED <<script, hasKey, affiliateTag, inputDir, fs, clock, lastFetchAt, txtFiles,
                   fileIdx, reg, batchIdx, processed, wakeAt, dealRows, sent, callStarts,
                   persisted, fnVars, scrapeVars>>

\* try { await fs.access(outFile) } catch {}
Access(m) ==
    /\ Running /\ pc[m] = "access"
    /\ pc' = [pc EXCEPT ![m] = "write"]
    /\ UNCHANGED <<script, hasKey, affiliateTag, inputDir, fs, clock, lastFetchAt, exitCode,
                   diag, inflight, txtFiles, fileIdx, reg, batchIdx, processed, wakeAt,
                   dealRows, sent, callStarts, persisted, fnVars, scrapeVars>>

\* the end of one pass of the batch loop: processed += batch.length; i++
LoopNext(m) ==
    /\ processed' = [processed EXCEPT ![m] = @ + Len(CurBatch(m))]
    /\ batchIdx' = [batchIdx EXCEPT ![m] = @ + 1]
    /\ IF batchIdx[m] + 1 < Len(Batches(m))
       THEN /\ pc' = [pc EXCEPT ![m] = "throttle"]
            /\ fileIdx' = fileIdx
       ELSE NextFile(m)

\* await fs.writeFile(outFile, JSON.stringify(dealRows, null, 2)) succeeds
WriteFile(m) ==
    /\ Running /\ pc[m] = "write"
    /\ fs.root /\ CurBase(m) \in fs.dirs
    /\ LET outFile == OutFile(CurBase(m), StartIdx(m), EndIdx(m))
       IN  /\ fs' = [fs EXCEPT !.files =
                       [f \in DOMAIN fs.files \cup {outFile} |->
                           IF f = outFile THEN dealRows[m] ELSE fs.files[f]]]
           /\ persisted' = persisted \cup {<<outFile, dealRows[m]>>}
    /\ LoopNext(m)
    /\ UNCHANGED <<script, hasKey, affiliateTag, inputDir, clock, lastFetchAt, exitCode, diag,
                   inflight, txtFiles, reg, wakeAt, dealRows, sent, callStarts, fnVars, scrapeVars>>

\* a catch that logs and does not rethrow
WriteFailSwallowed(m) ==
    /\ Running /\ pc[m] = "write"
    /\ diag' = "write"
    /\ LoopNext(m)
    /\ UNCHANGED <<script, hasKey, affiliateTag, inputDir, fs, clock, lastFetchAt, exitCode,
                   inflight, txtFiles, reg, wakeAt, dealRows, sent, callStarts, persisted, fnVars, scrapeVars>>

\* writeFile throws (the directory is gone, the disk is full): catch, log, rethrow
WriteFail(m) ==
    /\ Running /\ pc[m] = "write"
    /\ Exit1("write")
    /\ UNCHANGED <<script, hasKey, affiliateTag, inputDir, fs, clock, lastFetchAt, txtFiles,
                   fileIdx, reg, batchIdx, processed, wakeAt, dealRows, sent, callStarts, persisted, fnVars, scrapeVars>>

\* every started call of main() has returned: the process ends with code 0
ProcessEnd ==
    /\ Running
    /\ \A m \in Mains : pc[m] \in {"done", "off"}
    /\ exitCode' = 0
    /\ UNCHANGED <<script, hasKey, affiliateTag, inputDir, fs, clock, lastFetchAt, diag,
                   inflight, pc, txtFiles, fileIdx, reg, batchIdx, processed, wakeAt, dealRows,
                   sent, callStarts, persisted, fnVars, scrapeVars>>

\* an importer of the Keepa module calls the exported runKeepaScript(): main() again
RunKeepaScript ==
    /\ Running /\ script = "keepa" /\ pc[2] = "off"
    /\ pc' = [pc EXCEPT ![2] = "start"]
    /\ UNCHANGED <<script, hasKey, affiliateTag, inputDir, fs, clock, lastFetchAt, exitCode,
                   diag, inflight, txtFiles, fileIdx, reg, batchIdx, processed, wakeAt,
                   dealRows, sent, callStarts, persisted, fnVars, scrapeVars>>

(***************************************************************************)
(* Specifications                                                          *)
(***************************************************************************)
FnIdle == fin = <<>> /\ fout = <<>>

NoDealsJson == [exists |-> FALSE, deals |-> <<>>]

\* the scraper is a program of its own: it does not run with the API scripts
ScrapeIdle ==
    /\ inputTxt = <<>> /\ dealsJson = NoDealsJson /\ scrapePc = "off"
    /\ urls = <<>> /\ urlIdx = 0 /\ deals = <<>>

InitRun(listings) ==
    /\ script \in Scripts
    /\ hasKey \in BOOLEAN
    /\ affiliateTag \in {<<>>}
    /\ inputDir \in {[exists |-> TRUE, entries |-> l] : l \in listings}
                    \cup {[exists |-> FALSE, entries |-> <<>>]}
    /\ fs \in {EmptyFs, StaleFs}
    /\ clock = StartTime
    /\ lastFetchAt = 0
    /\ exitCode = -1
    /\ diag = "none"
    /\ inflight = 0
    /\ pc = [m \in Mains |-> IF m = 1 THEN "start" ELSE "off"]
    /\ txtFiles = [m \in Mains |-> <<>>]
    /\ fileIdx = [m \in Mains |-> 0]
    /\ reg = [m \in Mains |-> EmptyRegistry]
    /\ batchIdx = [m \in Mains |-> 0]
    /\ processed = [m \in Mains |-> 0]
    /\ wakeAt = [m \in Mains |-> 0]
    /\ dealRows = [m \in Mains |-> <<>>]
    /\ sent = [m \in Mains |-> <<>>]
    /\ callStarts = <<>>
    /\ persisted = {}
    /\ FnIdle
    /\ ScrapeIdle

\* node check-deal-amazon-api.mjs / node check-deals-keepa.mjs: main() is called once
Init == InitRun(Listings(MaxFiles))

MainStep(m) ==
    \/ MainAccess(m) \/ MainRm(m) \/ MainMkdirRoot(m) \/ MainReaddir(m) \/ IoFail(m)
    \/ FileMkdir(m) \/ FileRead(m) \/ ThrottleBegin(m) \/ ThrottleWake(m)
    \/ FetchStart(m) \/ FetchReturn(m) \/ FetchFail(m)
    \/ Access(m) \/ WriteFile(m) \/ WriteFail(m)

Next == (\E m \in Mains : MainStep(m)) \/ ProcessEnd

Spec == Init /\ [][Next]_vars

\* for every await of main a continuation that can run whenever the await is
\* pending: the resolving one, or the rejecting one where the call can throw
\* (IoFail at readFile, FetchFail at fetch, WriteFail at writeFile)
Settles ==
    \/ \E m \in Mains :
          \/ MainAccess(m) \/ MainRm(m) \/ MainMkdirRoot(m) \/ MainReaddir(m) \/ IoFail(m)
          \/ FileMkdir(m) \/ ThrottleBegin(m) \/ ThrottleWake(m)
          \/ FetchStart(m) \/ FetchFail(m) \/ Access(m) \/ WriteFail(m)
    \/ ProcessEnd

\* a script run in which every awaited call returns or throws and the event loop
\* then runs a continuation: main does not stay suspended at an await forever
SpecTerm == InitRun(Listings(MaxImportFiles)) /\ [][Next]_vars /\ WF_vars(Settles)

\* the Keepa module imported by a program that may call runKeepaScript()
InitImport == InitRun(Listings(MaxImportFiles)) /\ script = "keepa"

NextImport == (\E m \in Mains : MainStep(m)) \/ ProcessEnd \/ RunKeepaScript

SpecImport == InitImport /\ [][NextImport]_vars

\* a run on the three-line file, alone or followed by a second file
E2EListings ==
    { << [name |-> AppleTxt, isFile |-> TRUE, content |-> "e2e"] >>,
      << [name |-> AppleTxt, isFile |-> TRUE, content |-> "e2e"],
         [name |-> AppleTXT, isFile |-> TRUE, content |-> "other"] >> }

InitE2E == InitRun(E2EListings)

SpecE2E == InitE2E /\ [][Next]_vars

(***************************************************************************)
(* The pure functions, applied to inputs drawn from bounded sets           *)
(***************************************************************************)
\* longest list of lines given to the Deduplicator, longest array and largest
\* batch size given to chunk, most path segments of a URL
MaxLines == 4
MaxChunkLen == 5
MaxChunkSize == 3
MaxSegments == 2


\* path segments of the URLs tried
Segments ==
    {<<"d","p">>, <<"g","p">>, <<"p","r","o","d","u","c","t">>, <<"s">>,
     AsinUpper, toLowerCase(AsinUpper), AsinUpper \o <<"7">>}

RECURSIVE JoinPath(_)
JoinPath(segs) == IF segs = <<>> THEN <<>> ELSE <<"/">> \o Head(segs) \o JoinPath(Tail(segs))

Paths == UNION {{JoinPath(p) : p \in [1..k -> Segments]} : k \in 0..MaxSegments}

\* with a scheme (new URL parses it) and without (new URL throws)
UrlHeads == {SchemeLit \o AffiliateDomain, AffiliateDomain}

UrlTails ==
    {<<>>, <<"/">>,
     <<"?">> \o AsinLit \o <<"=">> \o toLowerCase(AsinOther),
     <<"?","t","=","1","&","A","S","I","N","=">> \o AsinOther,
     <<"?","u","=">> \o DpLit \o AsinOther,
     <<"#">> \o AsinLit \o <<"=">> \o AsinOther}

Urls == {h \o p \o t : h \in UrlHeads, p \in Paths, t \in UrlTails}

\* the lines given to the Deduplicator
DedupLines ==
    {ProductUrl(AsinUpper), toLowerCase(ProductUrl(AsinUpper)),
     SchemeLit \o AffiliateDomain \o <<"/">> \o AsinOther,
     SchemeLit \o AffiliateDomain \o <<"/","s">>}

LineLists == UNION {[1..k -> DedupLines] : k \in 0..MaxLines}

ChunkInputs ==
    {[arr |-> a, size |-> n] :
        a \in UNION {[1..k -> {"x", "y"}] : k \in 0..MaxChunkLen}, n \in 1..MaxChunkSize}

\* amounts of the PA-API (mills), of Keepa (cents, -1 for no data), of the page (mills)
PaAmounts == {NoNum} \cup {Num(x) : x \in {-5000, 0, 9990, 10000, 10001, 10004, 19990, 20000}}
KeepaAmounts == {NoNum} \cup {Num(x) : x \in {-1, 0, 999, 1000, 1999, 2000}}
PageAmounts == {NoNum} \cup {Num(x) : x \in {0, 9990, 10000, 10001, 19990, 20000}}

\* most records given to the sort
MaxDeals == 4

\* percentages of the records to sort, in hundredths of a percent
SortPcts == {NoNum, Num(0), Num(1000), Num(5000)}

\* the deals array of the scraper's main, each record with the index of its URL
DealLists ==
    UNION {{[i \in 1..k |-> [DiscountPct |-> l[i], Index |-> i]] : l \in [1..k -> SortPcts]} :
              k \in 0..MaxDeals}

\* the product pages visited by the scraper: with and without an identifier
ScrapeUrls == {ProductUrl(AsinUpper), SchemeLit \o AffiliateDomain \o <<"/","s">>}

\* price texts of a product page: a currency prefix, groups of digits separated
\* by ",", a fraction; and texts without a number
PriceIntegers ==
    {g \o t : g \in {<<"1">>, <<"1","2">>},
              t \in {<<>>, <<",","2","3","4">>, <<",","2","3","4",",","5","6","7">>}}

PriceTexts ==
    {h \o g \o f : h \in {<<>>, <<"$">>, <<"U","S","$"," ">>},
                   g \in PriceIntegers,
                   f \in {<<>>, <<".","8","9">>, <<".","5">>, <<".">>, <<",","5","0">>}}
    \cup {<<>>, Null, <<"$">>, <<"N","/","A">>, <<".">>, <<",">>, <<".","5">>, <<"$","1",".","2",".","3">>}

\* URLs in which several rules of extractASIN find an identifier, each rule
\* another one: a bare segment Asin(1), then a prefixed identifier AsinUpper in
\* lower case, then a query or fragment naming AsinOther. bare, prefixed, query
\* and rawQuery are the identifiers put there, Null where none was put
RuleTails ==
    {[text |-> <<>>, query |-> Null, rawQuery |-> Null],
     [text |-> <<"?">> \o AsinLit \o <<"=">> \o toLowerCase(AsinOther),
      query |-> AsinOther, rawQuery |-> Null],
     [text |-> <<"?","t","=","1","&","A","S","I","N","=">> \o AsinOther,
      query |-> AsinOther, rawQuery |-> Null],
     [text |-> <<"?","u","=">> \o DpLit \o AsinOther, query |-> Null, rawQuery |-> AsinOther],
     [text |-> <<"#">> \o AsinLit \o <<"=">> \o AsinOther, query |-> Null, rawQuery |-> Null]}

RuleUrls ==
    {[url |-> h \o (IF b THEN <<"/">> \o Asin(1) ELSE <<>>)
                \o (IF l = <<>> THEN <<>> ELSE l \o toLowerCase(AsinUpper))
                \o e \o t.text,
      bare |-> IF b THEN Asin(1) ELSE Null,
      prefixed |-> IF l = <<>> THEN Null ELSE AsinUpper,
      query |-> t.query,
      rawQuery |-> t.rawQuery] :
        h \in UrlHeads, b \in BOOLEAN, l \in {<<>>} \cup ProductPrefixes,
        e \in {<<>>, <<"/","s">>}, t \in RuleTails}

FnInputs ==
    {[kind |-> "url", url |-> u] : u \in Urls}
    \cup {[kind |-> "lines", lines |-> l] : l \in LineLists}
    \cup {[kind |-> "chunk", arr |-> c.arr, size |-> c.size] : c \in ChunkInputs}
    \cup {[kind |-> "paapi", price |-> a, basis |-> b, title |-> t, image |-> i] :
            a \in PaAmounts, b \in PaAmounts, t \in {Null, TitleLit},
            i \in {Null, SchemeLit \o ImageLit}}
    \cup {[kind |-> "keepa", c |-> a, o |-> b, avg |-> g, title |-> t, image |-> i] :
            a \in KeepaAmounts, b \in KeepaAmounts, g \in KeepaAmounts,
            t \in {Null, TitleLit}, i \in {Null, ImageLit}}
    \cup {[kind |-> "sort", deals |-> d] : d \in DealLists}
    \cup {[kind |-> "scrape", url |-> u, title |-> t, original |-> a, current |-> b,
            pictureRef |-> i] :
            u \in ScrapeUrls, t \in {Null, TitleLit}, a \in PageAmounts,
            b \in PageAmounts, i \in {Null, ImageLit}}
    \cup {[kind |-> "page", original |-> a, current |-> b] : a \in PageAmounts, b \in PageAmounts}
    \cup {[kind |-> "price", text |-> t] : t \in PriceTexts}
    \cup {[kind |-> "rules", url |-> r.url, bare |-> r.bare, prefixed |-> r.prefixed,
            query |-> r.query, rawQuery |-> r.rawQuery] : r \in RuleUrls}

\* the discount part of scrapeAmazonProduct: original falls back to current
PageDiscount(original, current) ==
    computeDiscount(IF original = NoNum /\ current # NoNum THEN current ELSE original, current)

IdleRun ==
    /\ script = "paapi" /\ hasKey = TRUE /\ affiliateTag = <<>>
    /\ inputDir = [exists |-> FALSE, entries |-> <<>>]
    /\ fs = EmptyFs /\ clock = StartTime /\ lastFetchAt = 0 /\ exitCode = -1
    /\ diag = "none" /\ inflight = 0
    /\ pc = [m \in Mains |-> "off"]
    /\ txtFiles = [m \in Mains |-> <<>>]
    /\ fileIdx = [m \in Mains |-> 0]
    /\ reg = [m \in Mains |-> EmptyRegistry]
    /\ batchIdx = [m \in Mains |-> 0]
    /\ processed = [m \in Mains |-> 0]
    /\ wakeAt = [m \in Mains |-> 0]
    /\ dealRows = [m \in Mains |-> <<>>]
    /\ sent = [m \in Mains |-> <<>>]
    /\ callStarts = <<>>
    /\ persisted = {}

InitFn == IdleRun /\ ScrapeIdle /\ fin \in FnInputs /\ fout = <<>>

ApplyExtract ==
    /\ fin.kind = "url" /\ fout = <<>>
    /\ fout' = [api |-> extractASIN(fin.url), scraper |-> extractASINFromUrl(fin.url)]
    /\ UNCHANGED <<runVars, scrapeVars, fin>>

ApplyDedup ==
    /\ fin.kind = "lines" /\ fout = <<>>
    /\ fout' = Dedup(fin.lines)
    /\ UNCHANGED <<runVars, scrapeVars, fin>>

ApplyChunk ==
    /\ fin.kind = "chunk" /\ fout = <<>>
    /\ fout' = [batches |-> chunk(fin.arr, fin.size)]
    /\ UNCHANGED <<runVars, scrapeVars, fin>>

ApplySummarizePA ==
    /\ fin.kind = "paapi" /\ fout = <<>>
    /\ fout' = DealRow(summarizePA(
                  [PaapiItem(AsinUpper) EXCEPT !.price = fin.price, !.basis = fin.basis,
                                               !.title = fin.title, !.image = fin.image],
                  Null))
    /\ UNCHANGED <<runVars, scrapeVars, fin>>

ApplySummarizeKeepa ==
    /\ fin.kind = "keepa" /\ fout = <<>>
    /\ fout' = DealRow(summarizeKeepa(<<>>,
                  [KeepaProduct(AsinUpper) EXCEPT !.c = fin.c, !.o = fin.o, !.avg = fin.avg,
                                                  !.title = fin.title, !.image = fin.image],
                  Null))
    /\ UNCHANGED <<runVars, scrapeVars, fin>>

ApplyPageDiscount ==
    /\ fin.kind = "page" /\ fout = <<>>
    /\ fout' = PageDiscount(fin.original, fin.current)
    /\ UNCHANGED <<runVars, scrapeVars, fin>>

ApplyScrape ==
    /\ fin.kind = "scrape" /\ fout = <<>>
    /\ fout' = ScrapedDeal(<<>>, fin.url, fin.title, fin.original, fin.current,
                           fin.pictureRef)
    /\ UNCHANGED <<runVars, scrapeVars, fin>>

ApplySort ==
    /\ fin.kind = "sort" /\ fout = <<>>
    /\ fout' = [sorted |-> sortedDeals(fin.deals)]
    /\ UNCHANGED <<runVars, scrapeVars, fin>>

ApplyExtractRules ==
    /\ fin.kind = "rules" /\ fout = <<>>
    /\ fout' = [api |-> extractASIN(fin.url)]
    /\ UNCHANGED <<runVars, scrapeVars, fin>>

ApplyParsePrice ==
    /\ fin.kind = "price" /\ fout = <<>>
    /\ fout' = [value |-> parsePriceText(fin.text)]
    /\ UNCHANGED <<runVars, scrapeVars, fin>>

NextFn ==
    \/ ApplyExtract \/ ApplyDedup \/ ApplyChunk
    \/ ApplySummarizePA \/ ApplySummarizeKeepa \/ ApplyPageDiscount \/ ApplyScrape
    \/ ApplySort \/ ApplyParsePrice \/ ApplyExtractRules

SpecFn == InitFn /\ [][NextFn]_vars

(***************************************************************************)
(* The scraper: main of scrape-deals.mjs                                   *)
(***************************************************************************)
\* most lines of the scraper's input file
MaxScrapeLines == 2

ExampleOrgLit == <<"e","x","a","m","p","l","e",".","o","r","g">>

\* lines of the input file: a product page, an Amazon page without identifier,
\* a page of another host, a line new URL() rejects, a blank line
ScrapeLines ==
    {ProductUrl(AsinUpper),
     SchemeLit \o AffiliateDomain \o <<"/","s">>,
     SchemeLit \o ExampleOrgLit \o DpLit \o AsinUpper,
     AffiliateDomain \o DpLit \o AsinUpper,
     <<" ">>}

ScrapeTexts == UNION {[1..k -> ScrapeLines] : k \in 0..MaxScrapeLines}

\* what a visited page gives: title, parsed prices, screenshot reference
ScrapePages ==
    {[title |-> TitleLit, original |-> Num(20000), current |-> Num(10000), pictureRef |-> ImageLit],
     [title |-> TitleLit, original |-> NoNum, current |-> Num(10000), pictureRef |-> ImageLit],
     [title |-> Null, original |-> NoNum, current |-> NoNum, pictureRef |-> Null]}

\* deals.json left by an earlier run
StaleDealsJson ==
    [exists |-> TRUE,
     deals |-> <<ScrapedDeal(<<>>, ProductUrl(AsinOther), TitleLit, Num(20000), Num(10000), ImageLit)>>]

\* new URL(url).hostname of a URL that parses
Hostname(url) ==
    LET r == AfterScheme(url)
    IN  toLowerCase(SubSeq(r, 1, FirstOf(r, {"/", "?", "#"}) - 1))

\* String.prototype.includes
includes(str, lit) == \E p \in 1..Len(str) : HasLit(str, p, lit)

\* the record pushed for a host that is not Amazon's
SkippedDeal(url) ==
    [ASIN |-> Null, Title |-> Null, Link |-> url, Original |-> NoNum, Current |-> NoNum,
     Image |-> Null, NeedCheckManually |-> TRUE, HasDiscount |-> FALSE,
     DiscountPct |-> NoNum, YouSave |-> NoNum, AffiliateLink |-> Null]

\* the record pushed by the catch of the loop
CaughtDeal(url) == [SkippedDeal(url) EXCEPT !.ASIN = extractASINFromUrl(url)]

CurUrl == urls[urlIdx + 1]

InitScrape ==
    /\ IdleRun /\ FnIdle
    /\ inputTxt \in ScrapeTexts
    /\ dealsJson \in {NoDealsJson, StaleDealsJson}
    /\ scrapePc = "read"
    /\ urls = <<>> /\ urlIdx = 0 /\ deals = <<>>

\* readFile, split, trim, filter; an empty list ends main
ScrapeReadFile ==
    /\ scrapePc = "read"
    /\ urls' = FilterNonEmpty([k \in 1..Len(inputTxt) |-> trim(inputTxt[k])])
    /\ scrapePc' = IF urls' = <<>> THEN "done" ELSE "setup"
    /\ UNCHANGED <<runVars, fnVars, inputTxt, dealsJson, urlIdx, deals>>

\* mkdir screenshots, unlink deals.json, launch the browser, open the page
ScrapeSetup ==
    /\ scrapePc = "setup"
    /\ dealsJson' = NoDealsJson
    /\ scrapePc' = "loop"
    /\ UNCHANGED <<runVars, fnVars, inputTxt, urls, urlIdx, deals>>

\* an await of main outside the loop's try rejects: main().catch exits with 1
ScrapeAbort ==
    /\ \/ scrapePc \in {"read", "setup", "write"}
       \/ scrapePc = "loop" /\ urlIdx = Len(urls)
    /\ \E unlinked \in BOOLEAN :
          dealsJson' = IF scrapePc = "setup" /\ unlinked THEN NoDealsJson ELSE dealsJson
    /\ scrapePc' = "failed"
    /\ UNCHANGED <<runVars, fnVars, inputTxt, urls, urlIdx, deals>>

\* the loop body up to the call of scrapeAmazonProduct
LoopHead ==
    /\ scrapePc = "loop" /\ urlIdx < Len(urls)
    /\ IF ~UrlParses(CurUrl)
       THEN /\ deals' = Append(deals, CaughtDeal(CurUrl))
            /\ urlIdx' = urlIdx + 1
            /\ UNCHANGED scrapePc
       ELSE IF ~includes(Hostname(CurUrl), AmazonDotLit)
       THEN /\ deals' = Append(deals, SkippedDeal(CurUrl))
            /\ urlIdx' = urlIdx + 1
            /\ UNCHANGED scrapePc
       ELSE /\ scrapePc' = "scraping"
            /\ UNCHANGED <<deals, urlIdx>>
    /\ UNCHANGED <<runVars, fnVars, inputTxt, dealsJson, urls>>

\* scrapeAmazonProduct returns: push, then wait between pages
ScrapeReturn ==
    /\ scrapePc = "scraping"
    /\ \E pg \in ScrapePages :
          deals' = Append(deals, ScrapedDeal(affiliateTag, CurUrl, pg.title, pg.original,
                                             pg.current, pg.pictureRef))
    /\ scrapePc' = "delay"
    /\ UNCHANGED <<runVars, fnVars, inputTxt, dealsJson, urls, urlIdx>>

\* scrapeAmazonProduct throws: the catch pushes a record
ScrapeThrow ==
    /\ scrapePc = "scraping"
    /\ deals' = Append(deals, CaughtDeal(CurUrl))
    /\ urlIdx' = urlIdx + 1
    /\ scrapePc' = "loop"
    /\ UNCHANGED <<runVars, fnVars, inputTxt, dealsJson, urls>>

\* page.waitForTimeout after the push returns
DelayReturn ==
    /\ scrapePc = "delay"
    /\ urlIdx' = urlIdx + 1
    /\ scrapePc' = "loop"
    /\ UNCHANGED <<runVars, fnVars, inputTxt, dealsJson, urls, deals>>

\* page.waitForTimeout after the push rejects (the page or the browser was
\* closed): it is inside the try, so the catch pushes a record too
DelayThrow ==
    /\ scrapePc = "delay"
    /\ deals' = Append(deals, CaughtDeal(CurUrl))
    /\ urlIdx' = urlIdx + 1
    /\ scrapePc' = "loop"
    /\ UNCHANGED <<runVars, fnVars, inputTxt, dealsJson, urls>>

\* browser.close() after the loop
ScrapeClose ==
    /\ scrapePc = "loop" /\ urlIdx = Len(urls)
    /\ scrapePc' = "write"
    /\ UNCHANGED <<runVars, fnVars, inputTxt, dealsJson, urls, urlIdx, deals>>

\* deals.sort, JSON.stringify, writeFile
ScrapeWrite ==
    /\ scrapePc = "write"
    /\ dealsJson' = [exists |-> TRUE, deals |-> sortedDeals(deals)]
    /\ scrapePc' = "done"
    /\ UNCHANGED <<runVars, fnVars, inputTxt, urls, urlIdx, deals>>

NextScrape ==
    \/ ScrapeReadFile \/ ScrapeSetup \/ ScrapeAbort \/ LoopHead
    \/ ScrapeReturn \/ ScrapeThrow \/ DelayReturn \/ DelayThrow
    \/ ScrapeClose \/ ScrapeWrite

SpecScrape == InitScrape /\ [][NextScrape]_vars

(***************************************************************************)
(* Properties                                                              *)
(***************************************************************************)
RECURSIVE Flatten(_)
\* the concatenation of a sequence of sequences
Flatten(ss) == IF ss = <<>> THEN <<>> ELSE Head(ss) \o Flatten(Tail(ss))

\* how often x occurs in the sequence s
Count(x, s) == Cardinality({i \in 1..Len(s) : s[i] = x})

\* the elements of a sequence
Range(s) == {s[i] : i \in 1..Len(s)}

\* C1: in a run of an API script the throttle records, for any two consecutive
\* provider calls (also the last call of one file and the first of the next), start
\* times at least SLEEP_BETWEEN_BATCHES_MS apart, and the recorded timestamp never
\* falls back below the start of the latest call
C1_ThrottleGap ==
    /\ Len(callStarts) = 2 =>
          callStarts[1] - callStarts[2] >= SLEEP_BETWEEN_BATCHES_MS(script)
    /\ callStarts # <<>> => lastFetchAt >= callStarts[1]

\* the first call of the second file is held back to exactly the interval after the
\* last call of the first file
C1_Witness ==
    /\ Len(callStarts) = 2
    /\ fileIdx[1] = 2 /\ batchIdx[1] = 0 /\ pc[1] = "fetching"
    /\ callStarts[1] - callStarts[2] = SLEEP_BETWEEN_BATCHES_MS(script)

\* main m has finished a file without error; its registry and batches are still in
\* reg[m] and sent[m]
FileCompleted(m) ==
    \/ pc[m] \in {"fileMkdir", "fileRead"} /\ fileIdx[m] > 1
    \/ pc[m] = "done" /\ fileIdx[m] >= 1

\* the file just completed by main m
CompletedFile(m) == txtFiles[m][IF pc[m] = "done" THEN fileIdx[m] ELSE fileIdx[m] - 1]

\* the identifiers of the lines: what extraction finds, whatever the line
IdsOfLines(lines) == {extractASIN(lines[i]) : i \in 1..Len(lines)} \ {Null}

\* ids are the identifiers of the source, asins its registry, requested the
\* identifiers of all batches sent, in order
ExactlyOnce(ids, asins, requested) ==
    /\ Range(asins) = ids
    /\ \A id \in ids : Count(id, requested) = 1
    /\ Range(requested) \subseteq ids

\* C2: when a source has been processed without error, every identifier of its
\* registry has been sent to the provider client in exactly one batch, a repeated
\* line has caused no second request, and nothing outside the registry was requested
C2_EachIdRequestedOnce ==
    FileCompleted(1) =>
        ExactlyOnce(IdsOfLines(ReadLines(script, FileText(script, CompletedFile(1).content))),
                    reg[1].asins, Flatten(sent[1]))

\* a source with a repeated identifier, sent in two batches, is complete
C2_Witness ==
    /\ pc[1] = "done" /\ fileIdx[1] >= 1
    /\ Len(sent[1]) = 2
    /\ Len(reg[1].duplicates) = 1

\* the output file of batch j (0-based) of the file main m is processing
BatchFile(m, j) ==
    OutFile(CurBase(m), j * ITEMS_PER_BATCH(script) + 1,
            j * ITEMS_PER_BATCH(script) + Len(Batches(m)[j + 1]))

\* C3: at most one provider call is in flight, and while the throttle step of a
\* batch runs no call is in flight and the output file of every earlier batch of
\* the source has been written
C3_Sequential ==
    /\ inflight <= 1
    /\ pc[1] \in {"throttle", "sleep", "fetch"} =>
          /\ inflight = 0
          /\ \A j \in 0..(batchIdx[1] - 1) :
                /\ BatchFile(1, j) \in DOMAIN fs.files
                /\ \E w \in persisted : w[1] = BatchFile(1, j)

\* the throttle step of the second batch of a source
C3_Witness ==
    /\ pc[1] = "throttle" /\ batchIdx[1] = 1
    /\ inflight = 0
    /\ BatchFile(1, 0) \in DOMAIN fs.files

\* C4: no throttle invocation reads lastFetchAt while another invocation has read
\* it and not yet written it (is suspended in its sleep), also when an importer of
\* the Keepa module calls runKeepaScript; stated for the runs whose calls go out to
\* the provider (the key is set)
C4_NoRacingRead ==
    [][\A m \in Mains :
          (hasKey /\ pc[m] = "throttle" /\ pc'[m] \in {"sleep", "fetch"}) =>
              \A o \in Mains \ {m} : pc[o] # "sleep"]_vars

\* C5: once a provider fetch has failed the process has exited with code 1, no call
\* of main is left running, and no throttle, provider call or file write follows
C5_FetchFailureAborts ==
    /\ [](diag = "fetch" =>
            /\ exitCode = 1
            /\ inflight = 0
            /\ \A m \in Mains : pc[m] \in {"dead", "off"})
    /\ [][diag = "fetch" =>
            UNCHANGED <<pc, exitCode, lastFetchAt, wakeAt, sent, callStarts, fs, persisted>>]_vars

\* a fetch failed with the credentials present, after a batch file was written and
\* with a source still to process
C5_Witness ==
    /\ diag = "fetch" /\ exitCode = 1 /\ hasKey
    /\ persisted # {}
    /\ fileIdx[1] >= 1 /\ fileIdx[1] < Len(txtFiles[1])

\* C6: every batch file written during the run is still there, with the content
\* written, at every later moment of the run
C6_WrittenFilesKept ==
    \A w \in persisted : w[1] \in DOMAIN fs.files /\ fs.files[w[1]] = w[2]

\* position i is the first line carrying its identifier; ids[i] is the identifier
\* of line i or Null
IsFirst(ids, i) == ids[i] # Null /\ \A j \in 1..(i - 1) : ids[j] # ids[i]

\* position j repeats an identifier of an earlier line
IsRepeat(ids, j) == ids[j] # Null /\ \E i \in 1..(j - 1) : ids[i] = ids[j]

\* the line on which the identifier of line j occurs first
FirstLine(ids, j) == MinOf({i \in 1..j : ids[i] = ids[j]})

\* r is the registry the claim describes for lines with identifiers ids
RegistryOf(lines, ids, r) ==
    LET F == {i \in 1..Len(ids) : IsFirst(ids, i)}
        D == {j \in 1..Len(ids) : IsRepeat(ids, j)}
    IN  /\ Len(r.asins) = Cardinality(F)
        /\ Len(r.asinSeen) = Cardinality(F)
        /\ Len(r.asinToLink) = Cardinality(F)
        /\ Len(r.duplicates) = Cardinality(D)
        /\ \A i \in F :
              LET k == Cardinality({x \in F : x <= i})
              IN  /\ r.asins[k] = ids[i]
                  /\ r.asinSeen[k] = <<ids[i], i>>
                  /\ r.asinToLink[k] = <<ids[i], lines[i]>>
        /\ \A j \in D :
              r.duplicates[Cardinality({x \in D : x <= j})] =
                  [asin |-> ids[j], line1 |-> FirstLine(ids, j), line2 |-> j]

\* C7: the Deduplicator keeps each identifier once, with the line number and URL
\* of its first occurrence, in the order of first occurrences, and records one
\* duplicate {line1: first line, line2: current line} for every later occurrence
C7_Deduplicator ==
    (fin # <<>> /\ fin.kind = "lines" /\ fout # <<>>) =>
        RegistryOf(fin.lines, [i \in 1..Len(fin.lines) |-> extractASIN(fin.lines[i])], fout)

\* two identifiers, the first of them repeated twice, the second time not on the
\* line after its first occurrence
C7_Witness ==
    /\ fin # <<>> /\ fin.kind = "lines" /\ fout # <<>>
    /\ Len(fout.asins) = 2
    /\ Len(fout.duplicates) = 2
    /\ fout.duplicates[2].line1 = 1 /\ fout.duplicates[2].line2 = 4

\* C8: chunk returns slices of 1..M elements whose lengths sum to N and whose
\* concatenation is the input; the empty input gives no batch
C8_Chunk ==
    (fin # <<>> /\ fin.kind = "chunk" /\ fout # <<>>) =>
        /\ Flatten(fout.batches) = fin.arr
        /\ Len(Flatten(fout.batches)) = Len(fin.arr)
        /\ \A k \in 1..Len(fout.batches) :
              Len(fout.batches[k]) >= 1 /\ Len(fout.batches[k]) <= fin.size
        /\ (fin.arr = <<>> => fout.batches = <<>>)

\* an input whose length is no multiple of the batch size: the last slice is short
C8_Witness ==
    /\ fin # <<>> /\ fin.kind = "chunk" /\ fout # <<>>
    /\ Len(fin.arr) % fin.size # 0
    /\ Len(fout.batches) >= 2
    /\ Len(fout.batches[Len(fout.batches)]) < fin.size

\* the 10-character groups of the forms the claim names, read off the URL text:
\* after "/dp/" or "/gp/product/", or as a whole segment between "/" and "/", "?",
\* "#" or the end
Candidates(url) ==
    {SubSeq(url, p + Len(lit), p + Len(lit) + 9) : 
        <<p, lit>> \in {x \in (1..Len(url)) \X {DpLit, GpProductLit, <<"/">>} :
            /\ HasLit(url, x[1], x[2])
            /\ HasAsinAt(url, x[1] + Len(x[2]))
            /\ x[2] = <<"/">> =>
                  /\ x[1] > SchemeLen(url)
                  /\ \/ x[1] + 10 = Len(url)
                     \/ url[x[1] + 11] \in {"/", "?", "#"}}}

\* what the claim allows an extractor to return for a URL with candidates cands
ExtractionOk(cands, result) ==
    IF cands = {} THEN result = Null
    ELSE \E c \in cands : result = toUpperCase(c)

\* C9: for a URL with /dp/<10 alphanumerics>, /gp/product/<10 alphanumerics> or a
\* bare 10-alphanumeric path segment every extractor returns those characters in
\* upper case, and for a URL with none of these forms it returns null; stated for
\* the URLs that have a scheme
C9_Extraction ==
    (fin # <<>> /\ fin.kind = "url" /\ fout # <<>> /\ SchemeLen(fin.url) > 0) =>
        /\ ExtractionOk(Candidates(fin.url), fout.api)
        /\ ExtractionOk(Candidates(fin.url), fout.scraper)

\* C10: with original and current both present (and positive) and current >=
\* original, every pipeline reports no discount and a percentage of 0
C10_NoNegativeDiscount ==
    /\ (fin # <<>> /\ fin.kind = "paapi" /\ fout # <<>>
          /\ FinitePositive(fin.basis) /\ FinitePositive(fin.price)
          /\ Val(fin.price) >= Val(fin.basis)) =>
              ~fout.HasDiscount /\ fout.DiscountPct = Num(0)
    /\ (fin # <<>> /\ fin.kind = "keepa" /\ fout # <<>>
          /\ FinitePositive(fin.o) /\ FinitePositive(fin.c) /\ Val(fin.c) >= Val(fin.o)) =>
              ~fout.HasDiscount /\ fout.DiscountPct = Num(0)
    /\ (fin # <<>> /\ fin.kind = "page" /\ fout # <<>>
          /\ FinitePositive(fin.original) /\ FinitePositive(fin.current)
          /\ Val(fin.current) >= Val(fin.original)) =>
              ~fout.hasDiscount /\ fout.pct = Num(0)

\* the record fout was written by one of the three pipelines
IsDealRecord == fin # <<>> /\ fout # <<>> /\ fin.kind \in {"paapi", "keepa", "scrape"}

\* the provider amounts the record was built from are not negative
AmountsNotNegative ==
    fin.kind = "paapi" =>
        /\ IsNum(fin.price) => Val(fin.price) >= 0
        /\ IsNum(fin.basis) => Val(fin.basis) >= 0

\* C11: in every Deal Record HasDiscount is true if and only if the Original and
\* Current written to the record are both non-null and Original > Current; stated
\* for provider amounts that are not negative
C11_HasDiscountIff ==
    (IsDealRecord /\ AmountsNotNegative) =>
        (fout.HasDiscount <=>
            (/\ fout.Original # NoNum /\ fout.Current # NoNum
             /\ Val(fout.Original) > Val(fout.Current)))

\* one of title, image, original price, current price, identifier is absent in
\* what the record was built from (for the scraper, the original price after its
\* fallback to the current price)
SomethingAbsent ==
    CASE fin.kind = "paapi" ->
            \/ fin.title = Null \/ fin.image = Null
            \/ fin.price = NoNum \/ fin.basis = NoNum
      [] fin.kind = "keepa" ->
            \/ fin.title = Null \/ fin.image = Null
            \/ fin.c = NoNum \/ fin.o = NoNum
      [] fin.kind = "scrape" ->
            \/ fin.title = Null \/ fin.pictureRef = Null
            \/ fout.Original = NoNum \/ fin.current = NoNum
            \/ fout.ASIN = Null

\* C12: a Deal Record built from data in which title, image, original price, current
\* price or identifier is absent has NeedCheckManually true
C12_NeedCheckWhenAbsent ==
    (IsDealRecord /\ SomethingAbsent) => fout.NeedCheckManually

\* a price field of a record: null or an amount that is not negative
PriceOk(v) == v = NoNum \/ Val(v) >= 0

\* C13: Original and Current of every Deal Record are null or a non-negative
\* amount, and a Keepa value (minor units) that is zero or negative is written as
\* null
C13_PricesNotNegative ==
    IsDealRecord =>
        /\ PriceOk(fout.Original) /\ PriceOk(fout.Current)
        /\ (fin.kind = "keepa" /\ IsNum(fin.c) /\ Val(fin.c) <= 0) => fout.Current = NoNum
        /\ (fin.kind = "keepa" /\ IsNum(fin.o) /\ Val(fin.o) <= 0) => fout.Original = NoNum

\* the percentage of a record with null read as 0
PctOrZero(d) == IF d.DiscountPct = NoNum THEN 0 ELSE Val(d.DiscountPct)

\* out holds the records of inp, by percentage descending (null as 0), records of
\* equal percentage in their input order
StableDescending(inp, out) ==
    /\ Len(out) = Len(inp)
    /\ Range(out) = Range(inp)
    /\ \A k \in 1..(Len(out) - 1) :
          \/ PctOrZero(out[k]) > PctOrZero(out[k + 1])
          \/ /\ PctOrZero(out[k]) = PctOrZero(out[k + 1])
             /\ out[k].Index < out[k + 1].Index

\* the percentages of a list of records, in order
PctsOf(ds) == [k \in 1..Len(ds) |-> ds[k].DiscountPct]

ExamplePcts == <<NoNum, Num(5000), Num(1000), Num(0)>>

\* C14 (amended): the sort is by percentage descending with null as 0 and equal
\* keys in input order; the percentages [null, 50, 10, 0] come out as
\* [50, 10, null, 0]
C14_StableSort ==
    (fin # <<>> /\ fin.kind = "sort" /\ fout # <<>>) =>
        /\ StableDescending(fin.deals, fout.sorted)
        /\ PctsOf(fin.deals) = ExamplePcts =>
              PctsOf(fout.sorted) = <<Num(5000), Num(1000), NoNum, Num(0)>>

\* the example list has been sorted
C14_Witness ==
    /\ fin # <<>> /\ fin.kind = "sort" /\ fout # <<>>
    /\ PctsOf(fin.deals) = ExamplePcts
    /\ fout.sorted[3].Index = 1

\* C14 as stated: the percentages [null, 50, 10, 0] come out as [50, 10, 0, null]
C14_AsStated ==
    (fin # <<>> /\ fin.kind = "sort" /\ fout # <<>>) =>
        /\ StableDescending(fin.deals, fout.sorted)
        /\ PctsOf(fin.deals) = ExamplePcts =>
              PctsOf(fout.sorted) = <<Num(5000), Num(1000), Num(0), NoNum>>

\* the rows are in descending order of percentage, null read as 0
Descending(rows) ==
    \A k \in 1..(Len(rows) - 1) : PctOrZero(rows[k]) >= PctOrZero(rows[k + 1])

\* C15: when a run of an API script that wrote records has ended in success, the
\* output holds one artifact with the records of all sources, sorted by discount
\* percentage descending
C15_AggregateBeforeDone ==
    (exitCode = 0 /\ \E g \in DOMAIN fs.files : fs.files[g] # <<>>) =>
        \E f \in DOMAIN fs.files :
            /\ \A g \in DOMAIN fs.files : Range(fs.files[g]) \subseteq Range(fs.files[f])
            /\ Descending(fs.files[f])

\* C16: with a PA-API credential missing, the run never ends in success and never
\* gets past the startup steps of main: no source is processed and no throttle is
\* passed
C16_MissingCredentialsFatalAtStartup ==
    (script = "paapi" /\ ~hasKey) =>
        /\ exitCode # 0
        /\ pc[1] \in {"start", "rm", "mkdirRoot", "readdir", "dead"}
        /\ lastFetchAt = 0
        /\ callStarts = <<>>

\* C17: without the Keepa key no request is ever in flight, the run never fails
\* at the fetch, every file written holds an empty array, and when main has returned
\* every batch of the source has been given to the client and has its output file
C17_KeepaWithoutKey ==
    (script = "keepa" /\ ~hasKey) =>
        /\ inflight = 0
        /\ diag # "fetch"
        /\ \A m \in Mains : pc[m] # "fetching"
        /\ \A w \in persisted : w[2] = <<>>
        /\ (pc[1] = "done" /\ fileIdx[1] >= 1) =>
              /\ Len(sent[1]) = Len(Batches(1))
              /\ \A j \in 0..(Len(Batches(1)) - 1) :
                    /\ BatchFile(1, j) \in DOMAIN fs.files
                    /\ fs.files[BatchFile(1, j)] = <<>>

\* a run without key has ended in success after two batches
C17_Witness ==
    /\ script = "keepa" /\ ~hasKey
    /\ exitCode = 0
    /\ Len(sent[1]) = 2
    /\ Len(callStarts) = 2
    /\ fs.files[BatchFile(1, 1)] = <<>>

\* main 1 is in the batch loop of its first file
InFirstFile == fileIdx[1] = 1 /\ pc[1] \in {"throttle", "sleep", "fetch", "fetching", "access", "write"}

\* the ASINs of the rows, in order
AsinsOf(rows) == [k \in 1..Len(rows) |-> rows[k].ASIN]

\* what the claim describes, for the identifiers ids expected of the file
EndToEnd(ids) ==
    InFirstFile =>
        /\ reg[1].asins = ids
        /\ reg[1].duplicates = << [asin |-> ids[1], line1 |-> 1, line2 |-> 2] >>
        /\ Batches(1) = <<ids>>
        /\ pc[1] \in {"fetching", "access", "write"} => sent[1] = <<ids>>
        /\ (hasKey /\ pc[1] \in {"access", "write"}) => AsinsOf(dealRows[1]) = ids

\* C18 (amended): for the file with the lines .../dp/B000111222, .../dp/B000111222,
\* .../dp/B0009998887?tag=x the registry has size 2, one duplicate record names
\* B000111222 (lines 1 and 2), one batch of size 2 is sent, and the identifiers
\* requested and the ASINs of the two records are B000111222 and B000999888
C18_EndToEnd == EndToEnd(<<AsinUpper, AsinOther>>)

\* the two records of the file are ready to be written
C18_Witness ==
    /\ InFirstFile /\ hasKey /\ pc[1] = "write"
    /\ Len(dealRows[1]) = 2
    /\ Len(reg[1].duplicates) = 1

\* C18 as stated: the second identifier is B0009998887
C18_AsStated == EndToEnd(<<AsinUpper, AsinOther \o <<"7">> >>)

\* main 1 is in a pass of the batch loop
InBatchLoop == pc[1] \in {"throttle", "sleep", "fetch", "fetching", "access", "write"}

\* the number of identifiers in the first j batches
SizeOfFirst(batches, j) == Len(Flatten(SubSeq(batches, 1, j)))

\* the file name whose range covers batch j (1-based) of batches
RangeFile(base, batches, j) ==
    OutFile(base, SizeOfFirst(batches, j - 1) + 1, SizeOfFirst(batches, j))

\* the ranges of the passes so far, given the batches of the source
RangesCover(base, batches, i, n) ==
    /\ StartIdx(1) = SizeOfFirst(batches, i) + 1
    /\ EndIdx(1) = SizeOfFirst(batches, i) + Len(batches[i + 1])
    /\ i = 0 => StartIdx(1) = 1
    /\ i + 1 = Len(batches) => EndIdx(1) = n
    /\ \A j \in 1..i : \E w \in persisted : w[1] = RangeFile(base, batches, j)

\* C19: the index range of each batch file starts at 1 for the first batch and at
\* the previous end + 1 for each next one, has the length of the batch (whatever
\* the provider returned), and the last range ends at the number of unique
\* identifiers
C19_IndexRanges ==
    InBatchLoop => RangesCover(CurBase(1), Batches(1), batchIdx[1], Len(reg[1].asins))

\* the file of a first, full batch was written with fewer records than its range,
\* and the second batch is being processed
C19_Witness ==
    /\ InBatchLoop /\ batchIdx[1] = 1 /\ hasKey
    /\ \E w \in persisted :
          /\ w[1] = OutFile(CurBase(1), 1, ITEMS_PER_BATCH(script))
          /\ Len(w[2]) < ITEMS_PER_BATCH(script)
    /\ StartIdx(1) = ITEMS_PER_BATCH(script) + 1

\* the identifiers of a batch for which the provider has an item, in order
Listed(batch) ==
    LET has(a) == ~Delisted(a)
    IN  SelectSeq(batch, has)

\* the rows of pass i and the files of the earlier passes hold one record per item
\* returned
OneRecordPerReturnedItem(base, batches, i) ==
    /\ pc[1] \in {"access", "write"} =>
          /\ AsinsOf(dealRows[1]) = Listed(batches[i + 1])
          /\ exitCode = -1 /\ diag = "none"
    /\ \A j \in 1..i :
          \E w \in persisted :
              /\ w[1] = RangeFile(base, batches, j)
              /\ AsinsOf(w[2]) = Listed(batches[j])

\* C20: when the provider returns items for only some identifiers of a batch, the
\* batch's output holds one record per returned item and none for the others, no
\* error is raised, and the loop goes on to the next batch
C20_PartialItems ==
    (hasKey /\ InBatchLoop) => OneRecordPerReturnedItem(CurBase(1), Batches(1), batchIdx[1])

\* after a batch answered in part the request of the next batch is in flight
C20_Witness ==
    /\ hasKey /\ pc[1] = "fetching" /\ batchIdx[1] = 1 /\ exitCode = -1
    /\ \E w \in persisted :
          /\ w[1] = RangeFile(CurBase(1), Batches(1), 1)
          /\ Len(w[2]) = Len(Batches(1)[1]) - (IF script = "paapi" THEN 1 ELSE 2)

\* the non-blank lines of the scraper's input file
NonBlankLines(txt) == {k \in 1..Len(txt) : \E c \in 1..Len(txt[k]) : txt[k][c] \notin Whitespace}

\* the records of lines that gave no identifier, no Amazon host or no page
PassThrough(d) == d.ASIN = Null \/ d.Title = Null

\* C21: when the scraper has written its artifact, it holds exactly one record
\* per non-blank input line, and every record of a line without identifier,
\* without Amazon host or whose scrape threw has NeedCheckManually true
C21_OneRecordPerLine ==
    (scrapePc = "done" /\ urls # <<>>) =>
        /\ dealsJson.exists
        /\ Len(dealsJson.deals) = Cardinality(NonBlankLines(inputTxt))
        /\ \A k \in 1..Len(dealsJson.deals) :
              PassThrough(dealsJson.deals[k]) => dealsJson.deals[k].NeedCheckManually

\* the text without every character that is no digit and no "."
DigitsAndDots(text) == SelectSeq(text, LAMBDA c : IsDigit(c) \/ c = ".")

\* C22: for every price text, parsePriceText gives the decimal number read from
\* the text after dropping every character other than digits and ".", all ","
\* included, and null when that leaves no number
C22_AllSeparatorsRemoved ==
    (fin # <<>> /\ fin.kind = "price" /\ fout # <<>>) =>
        fout.value = (IF Truthy(fin.text) THEN parseFloat(DigitsAndDots(fin.text)) ELSE NoNum)

\* the first of the identifiers that is present (all are upper case), else null
FirstPresent(ids) ==
    LET K == {k \in 1..Len(ids) : ids[k] # Null}
    IN  IF K = {} THEN Null ELSE ids[MinOf(K)]

\* C23: extractASIN returns the identifier of the product-path rule whenever the
\* path has one, also after a bare 10-character segment and with an asin query
\* parameter; else that of the bare segment; else that of the asin parameter;
\* and for an input that does not parse as a URL only the product-path rule is
\* tried, on the whole string
C23_RuleOrder ==
    (fin # <<>> /\ fin.kind = "rules" /\ fout # <<>>) =>
        fout.api = (IF SchemeLen(fin.url) > 0
                    THEN FirstPresent(<<fin.prefixed, fin.bare, fin.query>>)
                    ELSE FirstPresent(<<fin.prefixed, fin.rawQuery>>))

\* a URL that parses, with a bare segment before the product path and an asin
\* parameter after it, gave the identifier of the product path
C23_Witness ==
    /\ fin # <<>> /\ fin.kind = "rules" /\ fout # <<>>
    /\ SchemeLen(fin.url) > 0
    /\ fin.bare # Null /\ fin.prefixed # Null /\ fin.query # Null
    /\ fout.api = fin.prefixed

\* C24: while the input directory is missing, the only step of a script run is
\* the exit with code 1 at the access check, and it leaves the output root as it
\* was: nothing is removed, created, read or fetched
C24_MissingInputDirLeavesOutput ==
    [][ ~inputDir.exists =>
            /\ exitCode' = 1 /\ diag' = "inputdir"
            /\ fs' = fs
            /\ pc'[1] = "dead"
            /\ callStarts' = <<>> /\ persisted' = {} ]_vars

\* the run ended at the access check with the output of an earlier run in place
C24_Witness ==
    /\ ~inputDir.exists
    /\ exitCode = 1 /\ diag = "inputdir"
    /\ fs = StaleFs

\* the run has ended: with code 0 after main went through all its files, or
\* with code 1
Ended ==
    \/ exitCode = 1
    \/ exitCode = 0 /\ pc[1] = "done" /\ fileIdx[1] = Len(txtFiles[1])

\* the step that ends the run with code 1
Fails == exitCode = -1 /\ exitCode' = 1

\* C25: every script run ends, in success after all sources or with exit code 1,
\* and it exits with code 1 only from the missing input directory at startup,
\* from a failed file-system call of main or of the head of processTxtFile, from
\* a failed fetch, or from a failed batch file write
C25_Terminates ==
    /\ <>Ended
    /\ [][Fails => \/ pc[1] = "start" /\ ~inputDir.exists
                   \/ pc[1] \in {"rm", "mkdirRoot", "readdir", "fileMkdir", "fileRead"}
                   \/ pc[1] \in {"fetch", "fetching"}
                   \/ pc[1] = "write"]_vars

\* a run over a source of two batches has ended in success
C25_Witness ==
    /\ exitCode = 0 /\ pc[1] = "done"
    /\ txtFiles[1] # <<>> /\ batchIdx[1] >= 2

\* C25 as stated: every run ends, and it exits with code 1 only from a failed
\* fetch or a failed batch file write
C25_AsStated ==
    /\ <>Ended
    /\ [][Fails => pc[1] \in {"fetch", "fetching", "write"}]_vars

====
